---- MODULE Spec2Model ----
(***************************************************************************)
(* Protocol bridge and session lifecycle engine of droid-acp.              *)
(*                                                                         *)
(* The bridge runs on one cooperative thread.  A step of this model is one *)
(* run-to-suspension of a callback: an editor request, a subprocess line,  *)
(* a timer, or the continuation of an await on I/O.  Continuations of      *)
(* promises that settle without I/O run from the microtask queue `micro`,  *)
(* before any other callback.                                              *)
(*                                                                         *)
(* The specifications share the variables and the initial state:           *)
(*   Spec          the session lifecycle: prompts, cancels, restarts, exits*)
(*   SpecIds       the same lifecycle over a shorter editor script         *)
(*   SpecCompress  "/compress" prompts, captures and cancels               *)
(*   SpecExit      tool calls across cancels, restarts and exits           *)
(*   SpecMode      mode and model changes around a restart                 *)
(*   SpecLive      a cancel and its restart, with fairness                 *)
(*   SpecPlan      ExitSpecMode requests that carry a plan                 *)
(*   SpecTools     tool calls and permission requests of a session         *)
(*   SpecRec       the idle/complete reconciler of one subprocess adapter  *)
(*   SpecCancel    cancels with and without work in flight                 *)
(*   SpecParse     the reconciler fed with lines that do not parse         *)
(*   SpecError     error notifications around prompts and cancels          *)
(*   SpecStart     the start of one subprocess adapter                     *)
(*   SpecReturn    the session lifecycle, with fairness                    *)
(*   SpecPerm      permission requests and who answers them                *)
(*   SpecAuto      automatic decisions over the option lists offered       *)
(*   SpecResult    tool_result lines with and without an identifier        *)
(***************************************************************************)
EXTENDS Integers, Sequences, FiniteSets, TLC

\* ------------------------------------------------------------------ bounds
\* session lifecycle (Spec)
MaxPrompts == 3      \* prompt requests issued by the editor
MaxCancels == 2      \* effective cancel notifications issued by the editor
MaxRestarts == 2     \* restart bodies started
\* session lifecycle over a shorter editor script (SpecIds)
MaxIdPrompts == 2    \* prompt requests issued by the editor
MaxIdCancels == 1    \* effective cancel notifications issued by the editor
\* cancel notifications with and without work in flight (SpecCancel)
MaxCancelPrompts == 2    \* prompt requests issued by the editor
MaxCancelCalls == 3      \* cancel notifications issued by the editor
\* prompts, compression and cancels (SpecCompress)
MaxCompressPrompts == 2  \* prompt requests issued by the editor
MaxCompressCancels == 1  \* effective cancel notifications
MaxSummaryLines == 1     \* summary lines handled
\* tool calls across cancels and exits (SpecExit)
MaxExitLines == 2        \* subprocess lines handled
MaxExitCancels == 1      \* effective cancel notifications
\* mode and model changes (SpecMode)
MaxModePrompts == 1      \* prompt requests issued by the editor
MaxModeCancels == 1      \* effective cancel notifications
MaxModeRequests == 2     \* set-mode and set-model requests issued by the editor
MaxModeLines == 1        \* settings lines handled
\* a cancel leading to a replacement subprocess (SpecLive)
MaxLivePrompts == 2      \* prompt requests issued by the editor
MaxLiveCancels == 1      \* effective cancel notifications issued by the editor
MaxLiveLines == 1        \* subprocess lines handled
\* plan choice (SpecPlan)
MaxPlanLines == 2        \* permission requests handled
MaxPlanCancels == 1      \* effective cancel notifications issued by the editor
\* tool calls and permissions (SpecTools)
MaxTools == 1        \* distinct tool-call identifiers
MaxLines == 2        \* subprocess lines handled
MaxToolCancels == 1  \* effective cancel notifications
\* error notifications (SpecError)
MaxErrorPrompts == 2     \* prompt requests issued by the editor
MaxErrorCancels == 1     \* effective cancel notifications issued by the editor
MaxErrorLines == 2       \* error lines handled
\* tool-result lines with and without an identifier (SpecResult)
MaxResultLines == 2

\* permission requests decided by the policy table (SpecAuto)
MaxAutoLines == 2

\* permission requests with and without a tool use or a handler (SpecPerm)
MaxPermLines == 2
MaxPermCancels == 1

\* reconciler (SpecRec)
MaxRecLines == 3     \* subprocess lines handled by the adapter
\* reconciler over well-formed and malformed lines (SpecParse)
MaxMalformedLines == 2   \* malformed lines received by the adapter

\* --------------------------------------------------------------- constants
Modes == {"spec", "off", "low", "medium", "high"}
Risks == {"low", "medium", "high"}
ToolNames == {"ExitSpecMode", "Execute"}
Keys == 1 .. (MaxRestarts + 1)
Tools == 1 .. MaxTools
Terminal == {"completed", "failed"}
\* the option lists a permission request of the subprocess may carry
\* (<<>>: the request carries none)
OptionLists == {<<>>, <<"proceed_edit", "cancel">>}
\* option lists for the requests the policy decides: none, only the
\* cancellation, the decision itself, other approvals, in either order
AutoOptionLists == {<<>>, <<"cancel">>, <<"proceed_edit", "cancel">>,
                    <<"cancel", "proceed_always">>, <<"proceed_once", "cancel">>,
                    <<"cancel", "proceed_auto_run_low">>}
Models == {"m1", "m2"}
\* plan signatures: P0 lists no options, P1 and P2 list the options A and B
Plans == {"P0", "P1", "P2"}
\* the modes the editor and the subprocess switch to
ModeChanges == {"low", "high"}
\* what a subprocess reports when its initialization completes: its model and
\* the models it offers
DefaultInit == [modelId |-> "m1", availableModels |-> {"m1", "m2"}]
InitResults == {DefaultInit, [modelId |-> "m1", availableModels |-> {"m1"}]}

VARIABLES
  sessions,     \* the registry Map<string, Session>: key -> object (0 = absent)
  objs,         \* every Session object ever created, by object identity
  droids,       \* every DroidAdapter ever created
  prompts,      \* prompt() calls
  restarts,     \* bodies of restartDroidSession (the restartPromise)
  cancels,      \* cancel() calls
  micro,        \* microtask queue
  nextSid,      \* next fresh subprocess-session identifier
  sendLog,      \* user messages written to a subprocess
  updateIds,    \* sessionId of every sessionUpdate sent to the editor
  lines,        \* subprocess lines handled so far
  tasks,        \* notification and permission handlers suspended in an await
  statusLog,    \* per tool call: the statuses recorded by toolCallStatus.set
  reported,     \* per tool call: the statuses sent to the editor
  decisions,    \* the latest outcome of decidePermission
  answers,      \* the latest permission response written to a subprocess
  isStreamingAssistant, pendingIdle, pendingIdleTimer,  \* DroidAdapter fields
  recTrace,     \* lines handled, timer firings and notifications emitted
  processingChain,  \* the adapter's promise chain of lines: "ok" or "rejected"
  announced,    \* per session id: the mode of the latest current_mode_update
  lastChange,   \* per session id: the latest mode change requested and who made it
  requests,     \* set-mode and set-model requests issued by the editor
  presented,    \* per session id: the signature of the latest plan handled
  planDetails,  \* plan-details tool calls sent to the editor
  planDialogs,  \* choose-plan dialogs opened
  followUps,    \* "I choose Option ..." messages written to a subprocess
  errorLog,     \* error notifications handled for a session, with their outcome
  startResult,  \* the promise returned by DroidAdapter.start()
  initReject,   \* DroidAdapter: initResolve and initReject are set
  initTimer,    \* the initialization timer of start()
  childProcess, \* the child process of the adapter
  droidSid      \* DroidAdapter.sessionId

lifeVars == <<sessions, objs, droids, prompts, restarts, cancels, micro, nextSid,
              sendLog, updateIds>>
toolVars == <<lines, tasks, statusLog, reported, decisions, answers>>
recVars == <<isStreamingAssistant, pendingIdle, pendingIdleTimer, recTrace,
             processingChain>>
modeVars == <<announced, lastChange, requests>>
planVars == <<presented, planDetails, planDialogs, followUps>>
errVars == <<errorLog>>
startVars == <<startResult, initReject, initTimer, childProcess, droidSid>>
vars == <<lifeVars, toolVars, recVars, errVars, startVars, modeVars, planVars>>

\* ----------------------------------------------------------------- helpers
Idx(s) == 1 .. Len(s)

InSeq(s, v) == \E i \in Idx(s) : s[i] = v

Min(S) == CHOOSE x \in S : \A y \in S : x <= y

\* DroidAdapter.isRunning
isRunning(d) == droids[d].process = "alive"

\* the guard of DroidAdapter.send: process?.stdin?.writable
writable(ds, d) == ds[d].process = "alive" /\ ds[d].sid # 0

RestartInFlight(k) == \E r \in Idx(restarts) : restarts[r].key = k /\ restarts[r].pc # "done"

\* the wrapper installed as session.promptResolve: clearTimeout, then resolve
ResolvePrompt(ps, p, reason) ==
  IF p = 0 THEN ps
  ELSE [ps EXCEPT ![p] = [@ EXCEPT !.pc = "done", !.result = reason, !.timer = FALSE]]

\* capture.reject(...): the handleCompress call awaiting the capture resumes in
\* its catch block and awaits the "Failed to generate summary" message
RejectCaptureNever(ps, c) == ps

RejectCapture(ps, c) ==
  IF c = 0 THEN ps ELSE [ps EXCEPT ![c].pc = "compress82"]

\* attachSession: the Session object literal
NewSessionObject(k, d, sid, m) ==
  [id |-> k, droid |-> d, droidSessionId |-> sid, mode |-> m,
   keepAliveOnDroidExit |-> FALSE, cancelled |-> FALSE,
   restartPromise |-> 0, promptResolve |-> 0, capture |-> 0,
   model |-> DefaultInit.modelId, availableModels |-> DefaultInit.availableModels,
   activeToolCallIds |-> {}, toolCallStatus |-> [x \in Tools |-> "none"],
   specChoice |-> "null", specChoicePromptSignature |-> "null",
   specPlanDetailsSignature |-> "null"]

\* createDroidAdapter, before start() resolved
NewDroid == [process |-> "alive", osAlive |-> TRUE, sid |-> 0, key |-> 0,
             mode |-> "off", model |-> DefaultInit.modelId, busy |-> FALSE]

\* registers under the identifier the subprocess reports
AttachKeyOfInit(sessionId, initSessionId) == initSessionId

\* the key attachSession registers the restarted session under
AttachKey(sessionId, initSessionId) == sessionId

\* toolCallStatus.set(x, st) on object o
SetStatus(os, o, x, st) == [os EXCEPT ![o].toolCallStatus[x] = st]

\* activeToolCallIds.add / delete
AddActive(os, o, x) == [os EXCEPT ![o].activeToolCallIds = @ \cup {x}]
DelActive(os, o, x) == [os EXCEPT ![o].activeToolCallIds = @ \ {x}]

\* the stage of a status in pending -> in_progress -> completed | failed
Stage(st) ==
  IF st = "none" THEN 0 ELSE IF st = "pending" THEN 1 ELSE IF st = "in_progress" THEN 2 ELSE 3

\* a sequence of statuses observed so far: its last element, and whether it
\* only moved forward and never changed after completed or failed
NoStatus == [last |-> "none", forward |-> TRUE]

Log(lg, x, st) ==
  [lg EXCEPT ![x] = [last |-> st,
                     forward |-> @.forward /\ Stage(@.last) <= Stage(st)
                                           /\ (@.last \in Terminal => st = @.last)]]

NoDecision == [name |-> "", mode |-> "", risk |-> "", cancelled |-> FALSE, outcome |-> "none"]

NoAnswer == [name |-> "", option |-> "", by |-> "none", status |-> "", message |-> "",
             rejected |-> FALSE]

NoChange == [mode |-> "none", by |-> "none"]

\* --------------------------------------------------------- permission policy
\* spec mode treating medium risk as low risk
computeAutoDecisionLenient(toolName, sessionMode, riskLevel) ==
  IF toolName = "ExitSpecMode" THEN "null"
  ELSE IF sessionMode = "high" THEN "proceed_always"
  ELSE IF sessionMode = "medium"
       THEN (IF riskLevel = "high" THEN "null" ELSE "proceed_once")
  ELSE IF sessionMode = "low"
       THEN (IF riskLevel = "low" THEN "proceed_once" ELSE "null")
  ELSE IF sessionMode = "spec"
       THEN (IF riskLevel = "high" THEN "cancel" ELSE "proceed_once")
  ELSE "null"

computeAutoDecision(toolName, sessionMode, riskLevel) ==
  IF toolName = "ExitSpecMode" THEN "null"
  ELSE IF sessionMode = "high" THEN "proceed_always"
  ELSE IF sessionMode = "medium"
       THEN (IF riskLevel = "high" THEN "null" ELSE "proceed_once")
  ELSE IF sessionMode = "low"
       THEN (IF riskLevel = "low" THEN "proceed_once" ELSE "null")
  ELSE IF sessionMode = "spec"
       THEN (IF riskLevel = "low" THEN "proceed_once" ELSE "cancel")
  ELSE "null"

permissionKindFromOptionValue(value) ==
  IF value \in {"proceed_once", "proceed_edit"} THEN "allow_once"
  ELSE IF value \in {"proceed_auto_run_low", "proceed_auto_run_medium",
                     "proceed_auto_run_high", "proceed_auto_run", "proceed_always"}
       THEN "allow_always"
  ELSE IF value = "cancel" THEN "reject_once"
  ELSE "allow_once"

\* an automatic decision answered with the first option offered
AutoSelectedOptionFirst(autoDecision, droidOptions) ==
  IF droidOptions # <<>> THEN droidOptions[1] ELSE autoDecision

\* decidePermission: the option sent for an automatic decision
AutoSelectedOption(autoDecision, droidOptions) ==
  LET allowOnce == {i \in Idx(droidOptions) :
                      permissionKindFromOptionValue(droidOptions[i]) = "allow_once"}
      notCancel == {i \in Idx(droidOptions) : droidOptions[i] # "cancel"}
  IN
  IF InSeq(droidOptions, autoDecision) THEN autoDecision
  ELSE IF autoDecision = "cancel" THEN "cancel"
  ELSE IF droidOptions # <<>>
       THEN (IF allowOnce # {} THEN droidOptions[Min(allowOnce)]
             ELSE IF notCancel # {} THEN droidOptions[Min(notCancel)]
             ELSE "proceed_once")
  ELSE autoDecision

\* every choice is answered with the approval of the request
mapExitSpecModeSelectionOnce(optionId) ==
  [nextMode |-> IF optionId \in Modes THEN optionId ELSE "spec",
   droidSelectedOption |-> "proceed_once"]

mapExitSpecModeSelection(optionId) ==
  IF optionId = "off" THEN [nextMode |-> "off", droidSelectedOption |-> "proceed_once"]
  ELSE IF optionId = "low" THEN [nextMode |-> "low", droidSelectedOption |-> "proceed_auto_run_low"]
  ELSE IF optionId = "medium" THEN [nextMode |-> "medium", droidSelectedOption |-> "proceed_auto_run_medium"]
  ELSE IF optionId = "high" THEN [nextMode |-> "high", droidSelectedOption |-> "proceed_auto_run_high"]
  ELSE IF optionId = "spec" THEN [nextMode |-> "spec", droidSelectedOption |-> "cancel"]
  ELSE IF optionId = "proceed_once" THEN [nextMode |-> "off", droidSelectedOption |-> "proceed_once"]
  ELSE IF optionId = "proceed_auto_run_low" THEN [nextMode |-> "low", droidSelectedOption |-> "proceed_auto_run_low"]
  ELSE IF optionId = "proceed_auto_run_medium" THEN [nextMode |-> "medium", droidSelectedOption |-> "proceed_auto_run_medium"]
  ELSE IF optionId = "proceed_auto_run_high" THEN [nextMode |-> "high", droidSelectedOption |-> "proceed_auto_run_high"]
  ELSE IF optionId = "cancel" THEN [nextMode |-> "spec", droidSelectedOption |-> "cancel"]
  ELSE [nextMode |-> "null", droidSelectedOption |-> optionId]

\* option ids offered to the human for ExitSpecMode
specApprovalOptions(droidOptions) ==
  LET cand == {<<"off", "proceed_once">>, <<"low", "proceed_auto_run_low">>,
               <<"medium", "proceed_auto_run_medium">>, <<"high", "proceed_auto_run_high">>,
               <<"spec", "cancel">>}
      options == {c[1] : c \in {c \in cand : droidOptions = <<>> \/ InSeq(droidOptions, c[2])}}
  IN
  IF options # {} THEN options
  ELSE IF droidOptions # <<>> THEN {droidOptions[i] : i \in Idx(droidOptions)}
  ELSE {"off", "spec"}

\* option ids offered to the human
buildAcpPermissionOptions(toolName, droidOptions) ==
  IF toolName = "ExitSpecMode" THEN specApprovalOptions(droidOptions)
  ELSE IF droidOptions # <<>> THEN {droidOptions[i] : i \in Idx(droidOptions)}
  ELSE {"proceed_once", "cancel"}

Init ==
  /\ sessions = [k \in Keys |-> 0]
  /\ objs = <<>>
  /\ droids = <<>>
  /\ prompts = <<>>
  /\ restarts = <<>>
  /\ cancels = <<>>
  /\ micro = <<>>
  /\ nextSid = 1
  /\ sendLog = {}
  /\ updateIds = {}
  /\ lines = 0
  /\ tasks = {}
  /\ statusLog = [x \in Tools |-> NoStatus]
  /\ reported = [x \in Tools |-> NoStatus]
  /\ decisions = NoDecision
  /\ answers = NoAnswer
  /\ isStreamingAssistant = FALSE
  /\ pendingIdle = FALSE
  /\ pendingIdleTimer = "null"
  /\ recTrace = <<>>
  /\ processingChain = "ok"
  /\ announced = [k \in Keys |-> "none"]
  /\ lastChange = [k \in Keys |-> NoChange]
  /\ requests = 0
  /\ presented = [k \in Keys |-> "none"]
  /\ planDetails = 0
  /\ planDialogs = 0
  /\ followUps = {}
  /\ errorLog = <<>>
  /\ startResult = "none"
  /\ initReject = FALSE
  /\ initTimer = "none"
  /\ childProcess = "none"
  /\ droidSid = "null"

\* ---------------------------------------------------------- editor requests
\* newSession: start a subprocess, register the session under its session id
newSession ==
  /\ micro = <<>>
  /\ Len(objs) = 0
  /\ \E m \in Modes :
       /\ droids' = Append(droids, [NewDroid EXCEPT !.sid = nextSid, !.key = nextSid, !.mode = m])
       /\ objs' = Append(objs, NewSessionObject(nextSid, 1, nextSid, m))
       /\ sessions' = [sessions EXCEPT ![nextSid] = 1]
  /\ nextSid' = nextSid + 1
  /\ updateIds' = updateIds \cup {nextSid}
  /\ UNCHANGED <<prompts, restarts, cancels, micro, sendLog, toolVars, recVars, errVars, startVars, planVars, modeVars>>

\* prompt, from line 68 on (os, ps: the objects and prompt calls to update;
\* o: the ready session).  A text that is not a slash command: install the
\* continuation and write the user message.  "/compress": handleCompress up
\* to its first await.
PromptSuspend(os, ps, p, o) ==
  /\ updateIds' = updateIds \cup {os[o].id}
  /\ IF ps[p].slash
     THEN /\ prompts' = [ps EXCEPT ![p] = [@ EXCEPT
                           !.pc = IF ~isRunning(os[o].droid) \/ os[o].capture # 0
                                  THEN "slashMsg" ELSE "compress73",
                           !.obj = o]]
          /\ objs' = os
          /\ UNCHANGED sendLog
     ELSE /\ objs' = [os EXCEPT ![o].promptResolve = p]
          /\ prompts' = [ps EXCEPT ![p] = [@ EXCEPT !.pc = "suspended", !.timer = TRUE]]
          /\ sendLog' = IF writable(droids, os[o].droid)
                        THEN sendLog \cup {[p |-> p, droid |-> os[o].droid,
                                            restarting |-> RestartInFlight(os[o].id)]}
                        ELSE sendLog

\* getReadySession line 165 and on, then the rest of prompt
PromptReady(ps, p, k) ==
  LET o == sessions[k] IN
  IF objs[o].cancelled \/ ~isRunning(objs[o].droid)
  THEN /\ prompts' = [ps EXCEPT ![p] = [@ EXCEPT !.pc = "await166"]]
       /\ micro' = <<[t |-> "restart", k |-> k, p |-> p]>> \o
                   (IF micro = <<>> THEN <<>> ELSE Tail(micro))
       /\ UNCHANGED <<objs, sendLog, updateIds>>
  ELSE /\ PromptSuspend(objs, ps, p, o)
       /\ micro' = IF micro = <<>> THEN <<>> ELSE Tail(micro)

\* a prompt entering while another holds the continuation is let in
promptRejectedIfMissing(o) == o = 0

\* prompt lines 35-36: the session is missing or a prompt is in progress
promptRejected(o) == o = 0 \/ objs[o].promptResolve # 0

\* prompt up to its first suspension; slash: the text is "/compress"
promptText(k, slash) ==
  /\ micro = <<>>
  /\ Len(objs) > 0
  /\ LET p == Len(prompts) + 1
         o == sessions[k]
         new == [key |-> k, pc |-> "entry", wait |-> 0, result |-> "none", timer |-> FALSE,
                 slash |-> slash, obj |-> 0, droid |-> 0, newObj |-> 0,
                 oldMode |-> "", oldModel |-> ""]
     IN
     IF promptRejected(o)
     THEN \* line 35 / line 36: throws
          /\ prompts' = Append(prompts, [new EXCEPT !.pc = "done", !.result = "error"])
          /\ UNCHANGED <<objs, micro, sendLog, updateIds>>
     ELSE IF objs[o].restartPromise # 0
     THEN \* getReadySession line 160
          /\ prompts' = Append(prompts, [new EXCEPT !.pc = "await160",
                                                   !.wait = objs[o].restartPromise])
          /\ UNCHANGED <<objs, micro, sendLog, updateIds>>
     ELSE PromptReady(Append(prompts, new), p, k)
  /\ UNCHANGED <<sessions, droids, restarts, cancels, nextSid, toolVars, recVars, errVars, startVars, planVars, modeVars>>

\* a prompt whose text is not a slash command
prompt(k) == promptText(k, FALSE)

\* a prompt whose text is "/compress"
promptCompress(k) == promptText(k, TRUE)

\* a cancel that finalizes the tool calls and requests no restart
RestartRequestNever(k) == <<>>

\* cancel line 145: void restartDroidSession(...), run when cancel's await ends
RestartRequest(k) == <<[t |-> "restart", k |-> k, p |-> 0]>>

\* cancel, up to its first suspension: without active tool calls
\* finalizeActiveToolCalls returns at once and the restart is requested; with
\* active tool calls the first one is finalized and the call awaits the update
\* a cancel that finds work in flight everywhere: the no-op return is lost
hasInFlightWorkAlways(o) == TRUE

\* cancel: promptResolve !== null || capture !== null || activeToolCallIds.size > 0
hasInFlightWork(o) ==
  objs[o].promptResolve # 0 \/ objs[o].capture # 0 \/ objs[o].activeToolCallIds # {}

\* cancel of a session that is missing or has nothing in flight: logged, and
\* returned from; the call is recorded in cancels and nothing else is touched
cancelNoop(k) ==
  /\ micro = <<>>
  /\ IF sessions[k] = 0 THEN TRUE ELSE ~hasInFlightWork(sessions[k])
  /\ cancels' = Append(cancels, [key |-> k, obj |-> sessions[k], pc |-> "noop",
                                 rest |-> {}, prompt |-> 0, tools |-> {}])
  /\ UNCHANGED <<sessions, objs, droids, prompts, restarts, micro, nextSid, sendLog,
                 updateIds, toolVars, recVars, errVars, startVars, planVars, modeVars>>

\* a cancel that leaves the prompt suspended
CancelResolvesNothing(ps, p) == ps

\* cancel: session.promptResolve({ stopReason: "cancelled" })
CancelResolves(ps, p) == ResolvePrompt(ps, p, "cancelled")

cancel(k) ==
  /\ micro = <<>>
  /\ sessions[k] # 0
  /\ LET o == sessions[k]
         active == objs[o].activeToolCallIds
         os == [objs EXCEPT ![o].cancelled = TRUE, ![o].promptResolve = 0,
                            ![o].capture = 0, ![o].activeToolCallIds = {}]
     IN
     /\ hasInFlightWork(o)
     /\ prompts' = RejectCapture(CancelResolves(prompts, objs[o].promptResolve),
                                 objs[o].capture)
     /\ IF active = {}
        THEN /\ objs' = os
             /\ cancels' = Append(cancels, [key |-> k, obj |-> o, pc |-> "done", rest |-> {},
                                            prompt |-> objs[o].promptResolve, tools |-> {}])
             /\ micro' = RestartRequest(k)
             /\ updateIds' = IF objs[o].capture # 0 THEN updateIds \cup {objs[o].id}
                              ELSE updateIds
             /\ UNCHANGED <<statusLog, reported>>
        ELSE \E x \in active :
             /\ objs' = SetStatus(os, o, x, "completed")
             /\ statusLog' = Log(statusLog, x, "completed")
             /\ reported' = Log(reported, x, "completed")
             /\ updateIds' = updateIds \cup {objs[o].id}
             /\ cancels' = Append(cancels, [key |-> k, obj |-> o, pc |-> "finalize",
                                            rest |-> active \ {x},
                                            prompt |-> objs[o].promptResolve,
                                            tools |-> active])
             /\ UNCHANGED micro
  /\ UNCHANGED <<sessions, droids, restarts, nextSid, sendLog, lines, tasks,
                 decisions, answers, recVars, errVars, startVars, planVars, modeVars>>

\* cancel resumes in the loop of finalizeActiveToolCalls
cancelFinalize(c) ==
  /\ micro = <<>>
  /\ cancels[c].pc = "finalize"
  /\ LET o == cancels[c].obj
         rest == cancels[c].rest
     IN
     IF rest = {}
     THEN /\ cancels' = [cancels EXCEPT ![c].pc = "done"]
          /\ micro' = RestartRequest(cancels[c].key)
          /\ UNCHANGED <<objs, statusLog, reported, updateIds>>
     ELSE \E x \in rest :
          /\ objs' = SetStatus(objs, o, x, "completed")
          /\ statusLog' = Log(statusLog, x, "completed")
          /\ reported' = Log(reported, x, "completed")
          /\ updateIds' = updateIds \cup {objs[o].id}
          /\ cancels' = [cancels EXCEPT ![c].rest = rest \ {x}]
          /\ UNCHANGED micro
  /\ UNCHANGED <<sessions, droids, prompts, restarts, nextSid, sendLog, lines,
                 tasks, decisions, answers, recVars, errVars, startVars, planVars, modeVars>>

\* ------------------------------------------------------------------ restart
\* restartDroidSession up to the first suspension of its body (droid.start())
restartDroidSession ==
  /\ micro # <<>>
  /\ Head(micro).t = "restart"
  /\ LET k == Head(micro).k
         p == Head(micro).p
         o == sessions[k]
         r == Len(restarts) + 1
     IN
     IF o = 0
     THEN \* line 53: returns undefined; the caller's await resumes
          /\ micro' = (IF p = 0 THEN <<>> ELSE <<[t |-> "resume", k |-> k, p |-> p]>>) \o Tail(micro)
          /\ UNCHANGED <<objs, droids, restarts, prompts>>
     ELSE IF objs[o].restartPromise # 0
     THEN \* line 54: the pending promise is returned
          /\ prompts' = IF p = 0 THEN prompts
                        ELSE [prompts EXCEPT ![p].wait = objs[o].restartPromise]
          /\ micro' = Tail(micro)
          /\ UNCHANGED <<objs, droids, restarts>>
     ELSE /\ r <= MaxRestarts
          /\ objs' = [objs EXCEPT ![o].keepAliveOnDroidExit = TRUE, ![o].restartPromise = r]
          /\ droids' = Append([droids EXCEPT ![objs[o].droid].process = "null"], NewDroid)
          /\ restarts' = Append(restarts,
                                [key |-> k, pc |-> "resume", oldMode |-> objs[o].mode,
                                 oldModel |-> objs[o].model,
                                 resumeSessionId |-> objs[o].droidSessionId,
                                 droid |-> Len(droids) + 1, obj |-> 0])
          /\ prompts' = IF p = 0 THEN prompts ELSE [prompts EXCEPT ![p].wait = r]
          /\ micro' = Tail(micro)
  /\ UNCHANGED <<sessions, cancels, nextSid, sendLog, updateIds, toolVars, recVars, errVars, startVars, planVars, modeVars>>

\* the .catch/.finally of the restart promise, and the wake-up of its awaiters
RestartSettle(os, r) ==
  LET k == restarts[r].key
      cur == sessions'[k]
      waiters == {p \in Idx(prompts) : prompts[p].wait = r /\ prompts[p].pc \in {"await160", "await166"}}
      Wake[S \in SUBSET Idx(prompts)] ==
        IF S = {} THEN <<>>
        ELSE <<[t |-> "resume", k |-> k, p |-> Min(S)]>> \o Wake[S \ {Min(S)}]
  IN
  /\ objs' = IF cur = 0 THEN os
             ELSE [os EXCEPT ![cur].restartPromise = 0,
                             ![cur].keepAliveOnDroidExit = FALSE,
                             ![cur].cancelled = FALSE]
  /\ micro' = Wake[waiters]

\* droid.start() of the restart settles: resolved (ok) with the initialization
\* result init, or rejected
RestartStartedWith(r, ok, init) ==
  /\ micro = <<>>
  /\ restarts[r].pc \in {"resume", "fresh"}
  /\ LET k == restarts[r].key
         d == restarts[r].droid
         sid == IF restarts[r].pc = "resume" THEN restarts[r].resumeSessionId ELSE nextSid
         ak == AttachKey(k, sid)
         n == Len(objs) + 1
     IN
     IF ok
     THEN \* attachSession, then lines 113-118
          /\ ak \in Keys
          /\ droids' = [droids EXCEPT ![d] = [@ EXCEPT !.sid = sid, !.key = ak,
                                                       !.mode = restarts[r].oldMode,
                                                       !.model = init.modelId]]
          /\ objs' = Append(objs, [NewSessionObject(ak, d, sid, restarts[r].oldMode) EXCEPT
                                     !.model = init.modelId,
                                     !.availableModels = init.availableModels])
          /\ sessions' = [sessions EXCEPT ![ak] = n]
          /\ restarts' = [restarts EXCEPT ![r] = [@ EXCEPT !.pc = "reapply", !.obj = n]]
          /\ nextSid' = IF restarts[r].pc = "fresh" THEN nextSid + 1 ELSE nextSid
          /\ updateIds' = updateIds \cup {ak}
          /\ announced' = [announced EXCEPT ![ak] = restarts[r].oldMode]
          /\ UNCHANGED micro
     ELSE IF restarts[r].pc = "resume"
     THEN \* line 95-97: startFresh
          /\ droids' = Append([droids EXCEPT ![d] = [@ EXCEPT !.process = "null", !.osAlive = FALSE]],
                              NewDroid)
          /\ restarts' = [restarts EXCEPT ![r] = [@ EXCEPT !.pc = "fresh", !.droid = Len(droids) + 1]]
          /\ UNCHANGED <<objs, sessions, nextSid, updateIds, micro, announced>>
     ELSE \* startFresh rejected: the body throws
          /\ droids' = [droids EXCEPT ![d] = [@ EXCEPT !.process = "null", !.osAlive = FALSE]]
          /\ restarts' = [restarts EXCEPT ![r].pc = "done"]
          /\ UNCHANGED <<sessions, nextSid, updateIds, announced>>
          /\ RestartSettle(objs, r)
  /\ UNCHANGED <<prompts, cancels, sendLog, toolVars, recVars, errVars, startVars, planVars, lastChange, requests>>

\* ... with a subprocess that reports the default model and offers every model
RestartStarted(r, ok) == RestartStartedWith(r, ok, DefaultInit)

\* lines 126-129 keeping the model the replacement started with
ReapplyModelNever(os, ds, n, oldModel) == [o |-> os, d |-> ds]

\* lines 126-129: the session objects and subprocesses after the model selected
\* before the restart is re-applied to the new object n, if it is offered
ReapplyModel(os, ds, n, oldModel) ==
  IF oldModel \in os[n].availableModels
  THEN [o |-> [os EXCEPT ![n].model = oldModel],
        d |-> IF writable(ds, os[n].droid) THEN [ds EXCEPT ![os[n].droid].model = oldModel]
              ELSE ds]
  ELSE [o |-> os, d |-> ds]

\* the body after the await of line 118, to its end
RestartReapplied(r) ==
  /\ micro = <<>>
  /\ restarts[r].pc = "reapply"
  /\ restarts' = [restarts EXCEPT ![r].pc = "done"]
  /\ UNCHANGED sessions
  /\ LET re == ReapplyModel(objs, droids, restarts[r].obj, restarts[r].oldModel) IN
     /\ droids' = re.d
     /\ RestartSettle([re.o EXCEPT ![restarts[r].obj].cancelled = FALSE], r)
  /\ UNCHANGED <<prompts, cancels, nextSid, sendLog, updateIds, toolVars, recVars, errVars, startVars, planVars, modeVars>>

\* a prompt resumes after the restart promise it awaited settled
PromptResume ==
  /\ micro # <<>>
  /\ Head(micro).t = "resume"
  /\ LET p == Head(micro).p
         k == prompts[p].key
         ps == [prompts EXCEPT ![p].wait = 0]
     IN
     IF sessions[k] = 0
     THEN \* "Session not found"
          /\ prompts' = [ps EXCEPT ![p] = [@ EXCEPT !.pc = "done", !.result = "error"]]
          /\ micro' = Tail(micro)
          /\ UNCHANGED <<objs, sendLog, updateIds>>
     ELSE IF prompts[p].pc = "await160"
     THEN PromptReady(ps, p, k)
     ELSE /\ PromptSuspend(objs, ps, p, sessions[k])
          /\ micro' = Tail(micro)
  /\ UNCHANGED <<sessions, droids, restarts, cancels, nextSid, toolVars, recVars, errVars, startVars, planVars, modeVars>>

\* ------------------------------------------------------- subprocess and timers
\* onExit: current.keepAliveOnDroidExit, set by restartDroidSession
KeptOnExit(o) == objs[o].keepAliveOnDroidExit

\* the subprocess exits: the adapter's exit listener and attachSession's onExit
DroidExit(d) ==
  /\ micro = <<>>
  /\ droids[d].osAlive
  /\ droids[d].key # 0
  /\ droids' = [droids EXCEPT ![d] = [@ EXCEPT !.osAlive = FALSE, !.process = "null"]]
  /\ LET k == droids[d].key
         o == sessions[k] IN
     IF o = 0 \/ objs[o].droid # d
     THEN UNCHANGED <<objs, prompts, sessions>>
     ELSE /\ prompts' = ResolvePrompt(prompts, objs[o].promptResolve, "end_turn")
          /\ objs' = [objs EXCEPT ![o].promptResolve = 0, ![o].keepAliveOnDroidExit = FALSE]
          /\ sessions' = IF KeptOnExit(o) THEN sessions
                         ELSE [sessions EXCEPT ![k] = 0]
  /\ UNCHANGED <<restarts, cancels, micro, nextSid, sendLog, updateIds, toolVars, recVars, errVars, startVars, planVars, modeVars>>

\* the five-minute timer of a prompt fires
PromptTimeout(p) ==
  /\ micro = <<>>
  /\ prompts[p].timer
  /\ LET o == sessions[prompts[p].key]
         q == IF o = 0 THEN 0 ELSE objs[o].promptResolve
         ps == [prompts EXCEPT ![p].timer = FALSE] IN
     /\ prompts' = ResolvePrompt(ps, q, "end_turn")
     /\ objs' = IF q = 0 THEN objs ELSE [objs EXCEPT ![o].promptResolve = 0]
  /\ UNCHANGED <<sessions, droids, restarts, cancels, micro, nextSid, sendLog, updateIds,
                 toolVars, recVars, errVars, startVars, planVars, modeVars>>

\* -------------------------------------------------- tool calls and permissions
\* the guard of the closures attachSession registers on a droid: the session
\* the droid was attached to is still registered and still owns the droid
Current(d) ==
  LET o == sessions[droids[d].key] IN
  IF o # 0 /\ objs[o].droid = d THEN o ELSE 0

\* a subprocess line can be handled: its adapter has handlers, the subprocess
\* has not exited, and the processing chain is not held by a request handler
CanRead(d) ==
  /\ micro = <<>>
  /\ droids[d].key # 0
  /\ droids[d].osAlive
  /\ ~droids[d].busy

NewTask(kind, d, o, x) ==
  [id |-> lines + 1, kind |-> kind, d |-> d, obj |-> o, tool |-> x, pc |-> "build",
   name |-> "", risk |-> "", opts |-> <<>>, status |-> "", option |-> "", by |-> "",
   model |-> "", message |-> "", rejected |-> FALSE, plan |-> "", choice |-> ""]

\* a create_message line carrying a tool_use block: handleNotification up to
\* the await of buildPermissionToolCallContent
LineToolUse(d, x, name) ==
  /\ CanRead(d)
  /\ lines' = lines + 1
  /\ LET o == Current(d)
         st == objs[o].toolCallStatus[x]
         initialStatus == IF name = "ExitSpecMode" THEN "pending" ELSE "in_progress"
     IN
     IF o = 0 \/ objs[o].cancelled \/ st \in Terminal
     THEN UNCHANGED <<objs, tasks, statusLog, reported, updateIds>>
     ELSE IF x \notin objs[o].activeToolCallIds
     THEN /\ objs' = SetStatus(AddActive(objs, o, x), o, x, initialStatus)
          /\ statusLog' = Log(statusLog, x, initialStatus)
          /\ tasks' = tasks \cup {[NewTask("toolUse", d, o, x) EXCEPT !.name = name,
                                                                   !.status = initialStatus]}
          /\ UNCHANGED <<reported, updateIds>>
     ELSE IF st # "pending"
     THEN /\ objs' = SetStatus(objs, o, x, "in_progress")
          /\ statusLog' = Log(statusLog, x, "in_progress")
          /\ reported' = Log(reported, x, "in_progress")
          /\ updateIds' = updateIds \cup {objs[o].id}
          /\ UNCHANGED tasks
     ELSE UNCHANGED <<objs, tasks, statusLog, reported, updateIds>>
  /\ UNCHANGED <<sessions, droids, prompts, restarts, cancels, micro, nextSid, sendLog,
                 decisions, answers, recVars, errVars, startVars, planVars, modeVars>>

\* ... resumed: the tool_call is sent with the status computed before the await
ToolUseEmit(t) ==
  /\ micro = <<>>
  /\ t.kind = "toolUse"
  /\ reported' = Log(reported, t.tool, t.status)
  /\ updateIds' = updateIds \cup {objs[t.obj].id}
  /\ tasks' = tasks \ {t}
  /\ UNCHANGED <<sessions, objs, droids, prompts, restarts, cancels, micro, nextSid, sendLog,
                 lines, statusLog, decisions, answers, recVars, errVars, startVars, planVars, modeVars>>

\* a tool_result line: handleNotification up to its first await
LineToolResult(d, x, isError) ==
  /\ CanRead(d)
  /\ lines' = lines + 1
  /\ LET o == Current(d)
         finalStatus == IF isError THEN "failed" ELSE "completed"
         t == [NewTask("result", d, o, x) EXCEPT !.status = finalStatus]
     IN
     IF o = 0 \/ objs[o].cancelled
     THEN UNCHANGED <<objs, tasks, reported, updateIds>>
     ELSE /\ updateIds' = updateIds \cup {objs[o].id}
          /\ IF x \notin objs[o].activeToolCallIds
             THEN /\ objs' = AddActive(objs, o, x)
                  /\ reported' = Log(reported, x, "in_progress")
                  /\ tasks' = tasks \cup {[t EXCEPT !.pc = "emitFinal"]}
             ELSE /\ reported' = Log(reported, x, finalStatus)
                  /\ tasks' = tasks \cup {[t EXCEPT !.pc = "record"]}
                  /\ UNCHANGED objs
  /\ UNCHANGED <<sessions, droids, prompts, restarts, cancels, micro, nextSid, sendLog,
                 statusLog, decisions, answers, recVars, errVars, startVars, planVars, modeVars>>

\* the identifier fields of a tool_result notification, in the order they are
\* consulted: toolUseId, tool_use_id, tool_call_id, callId, call_id, id
IdFields == 1 .. 6

\* the value of a field: 0 absent (undefined or null), -1 not a string, -2 the
\* empty string, otherwise a tool-call identifier
FieldValues == {0, -1, -2} \cup Tools

\* the tool_result notifications a subprocess writes: at most two of the
\* fields are present
ToolResultLines ==
  {[i \in IdFields |-> IF i = a THEN u ELSE IF i = b THEN v ELSE 0] :
     a \in IdFields, b \in IdFields, u \in FieldValues, v \in FieldValues}

\* an adapter that makes up the identifier a notification lacks
ResolveToolUseIdOrGuess(n) ==
  LET present == {i \in IdFields : n[i] # 0} IN
  IF present # {} /\ n[Min(present)] \in Tools THEN n[Min(present)] ELSE Min(Tools)

\* handleLine lines 278-285 and 300: the first field present, if it is a
\* non-empty string (0: null, the notification has no identifier)
ResolveToolUseId(n) ==
  LET present == {i \in IdFields : n[i] # 0} IN
  IF present # {} /\ n[Min(present)] \in Tools THEN n[Min(present)] ELSE 0

\* a tool_result line: handleLine lines 277-311, then handleNotification up to
\* its first await; without an identifier the error is logged and the line is
\* dropped
handleToolResult(d, n, isError) ==
  IF ResolveToolUseId(n) = 0
  THEN /\ CanRead(d)
       /\ lines' = lines + 1
       /\ recTrace' = Append(recTrace, "Missing tool_use_id")
       /\ UNCHANGED <<lifeVars, tasks, statusLog, reported, decisions, answers,
                      isStreamingAssistant, pendingIdle, pendingIdleTimer, processingChain,
                      errVars, startVars, planVars, modeVars>>
  ELSE LineToolResult(d, ResolveToolUseId(n), isError)

\* ... resumed after the tool_call: the final tool_call_update is sent
ToolResultEmit(t) ==
  /\ micro = <<>>
  /\ t.kind = "result" /\ t.pc = "emitFinal"
  /\ reported' = Log(reported, t.tool, t.status)
  /\ tasks' = (tasks \ {t}) \cup {[t EXCEPT !.pc = "record"]}
  /\ UNCHANGED <<sessions, objs, droids, prompts, restarts, cancels, micro, nextSid, sendLog,
                 updateIds, lines, statusLog, decisions, answers, recVars, errVars, startVars, planVars, modeVars>>

\* ... resumed after the final update: lines 296-297
ToolResultRecord(t) ==
  /\ micro = <<>>
  /\ t.kind = "result" /\ t.pc = "record"
  /\ objs' = DelActive(SetStatus(objs, t.obj, t.tool, t.status), t.obj, t.tool)
  /\ statusLog' = Log(statusLog, t.tool, t.status)
  /\ tasks' = tasks \ {t}
  /\ UNCHANGED <<sessions, droids, prompts, restarts, cancels, micro, nextSid, sendLog,
                 updateIds, lines, reported, decisions, answers, recVars, errVars, startVars, planVars, modeVars>>

\* the adapter writes the response of the request handler, if it still has a
\* process; status and message: the last toolCallStatus.set of the handler and
\* the text of the tool_call_update it sent with it ("": none); rejected: the
\* escalation to the human failed or was turned down
WriteAnswer(ds, t, option, by) ==
  IF ds[t.d].process # "null"
  THEN [name |-> t.name, option |-> option, by |-> by, status |-> t.status,
        message |-> t.message, rejected |-> t.rejected]
  ELSE answers

\* a droid.request_permission line: the onRequest closure and handlePermission
\* up to the await of buildPermissionToolCallContent
LinePermission(d, x, name, risk, opts) ==
  /\ CanRead(d)
  /\ lines' = lines + 1
  /\ LET o == Current(d)
         t == [NewTask("perm", d, o, x) EXCEPT !.name = name, !.risk = risk, !.opts = opts]
     IN
     IF o = 0
     THEN \* stale: { selectedOption: "proceed_once" }
          /\ answers' = WriteAnswer(droids, t, "proceed_once", "stale")
          /\ UNCHANGED <<droids, tasks>>
     ELSE /\ droids' = [droids EXCEPT ![d].busy = TRUE]
          /\ tasks' = tasks \cup {t}
          /\ UNCHANGED answers
  /\ UNCHANGED <<sessions, objs, prompts, restarts, cancels, micro, nextSid, sendLog,
                 updateIds, statusLog, reported, decisions, recVars, errVars, startVars, planVars, modeVars>>

\* a droid.request_permission line whose params carry no tool use: the
\* onRequest closure, then handlePermission lines 22-25; the handler returns
\* without an await on I/O, so the adapter writes the response in the same turn
LinePermissionNoToolUse(d) ==
  /\ CanRead(d)
  /\ lines' = lines + 1
  /\ LET o == Current(d)
         t == [NewTask("perm", d, o, 0) EXCEPT !.name = "none"]
     IN
     answers' = WriteAnswer(droids, t, "proceed_once", IF o = 0 THEN "stale" ELSE "noToolUse")
  /\ UNCHANGED <<sessions, objs, droids, prompts, restarts, cancels, micro, nextSid, sendLog,
                 updateIds, tasks, statusLog, reported, decisions, recVars, errVars, startVars,
                 planVars, modeVars>>

\* a droid.request_permission line handled by an adapter on which onRequest
\* was not called yet (created, not attached): handleLine lines 361-374
LinePermissionUnhandled(d) ==
  /\ micro = <<>>
  /\ droids[d].key = 0
  /\ droids[d].osAlive
  /\ lines' = lines + 1
  /\ answers' = WriteAnswer(droids, [NewTask("perm", d, 0, 0) EXCEPT !.name = "none"],
                            "proceed_once", "fallback")
  /\ UNCHANGED <<sessions, objs, droids, prompts, restarts, cancels, micro, nextSid, sendLog,
                 updateIds, tasks, statusLog, reported, decisions, recVars, errVars, startVars,
                 planVars, modeVars>>

\* a declined request is closed without any text
DeclineTextNone(by, toolName, selectedOption) == ""

\* the text of the tool_call_update that closes a permission request decided
\* by the table ("auto"), by the human, or whose escalation failed: lines
\* 260-277, 302-314 and 355-384 ("": no text, or no update at all)
DeclineText(by, toolName, selectedOption) ==
  IF by = "failed" THEN "Permission request failed"
  ELSE IF selectedOption # "cancel" THEN ""
  ELSE IF by = "auto" THEN "Permission denied"
  ELSE IF toolName = "ExitSpecMode" THEN "Staying in Spec mode."
  ELSE ""

\* the human turned the request down (declined, dismissed, chose to stay in
\* Spec mode) or the request to the human failed
Rejected(choice) == choice \in {"cancel", "dismissed", "spec", "throw"}

Decision(t, o, outcome) ==
  [name |-> t.name, mode |-> objs[o].mode, risk |-> t.risk,
   cancelled |-> objs[o].cancelled, outcome |-> outcome]

\* ... resumed: handlePermission lines 86-123, then decidePermission up to its
\* first await
PermissionBuilt(t) ==
  /\ micro = <<>>
  /\ t.kind = "perm" /\ t.pc = "build" /\ t.plan = ""
  /\ LET o == t.obj
         x == t.tool
         os == SetStatus(AddActive(objs, o, x), o, x, "pending")
         sl == Log(statusLog, x, "pending")
         rp == Log(reported, x, "pending")
         autoDecision == computeAutoDecision(t.name, objs[o].mode, t.risk)
         selectedOption == AutoSelectedOption(autoDecision, t.opts)
         status == IF selectedOption = "cancel" \/ t.name = "ExitSpecMode"
                   THEN "completed" ELSE "in_progress"
     IN
     /\ updateIds' = updateIds \cup {objs[o].id}
     /\ IF objs[o].cancelled
        THEN \* lines 192-204
             /\ objs' = DelActive(SetStatus(os, o, x, "completed"), o, x)
             /\ statusLog' = Log(sl, x, "completed")
             /\ reported' = Log(rp, x, "completed")
             /\ decisions' = Decision(t, o, "reject")
             /\ tasks' = (tasks \ {t}) \cup {[t EXCEPT !.pc = "respond", !.option = "cancel",
                                                       !.by = "cancelled",
                                                       !.status = "completed"]}
        ELSE IF autoDecision # "null"
        THEN \* lines 236-280
             /\ objs' = IF status = "completed" THEN DelActive(SetStatus(os, o, x, status), o, x)
                        ELSE SetStatus(os, o, x, status)
             /\ statusLog' = Log(sl, x, status)
             /\ reported' = Log(rp, x, status)
             /\ decisions' = Decision(t, o, IF selectedOption = "cancel" THEN "reject" ELSE "approve")
             /\ tasks' = (tasks \ {t}) \cup {[t EXCEPT !.pc = "respond",
                                                       !.option = selectedOption, !.by = "auto",
                                                       !.status = status,
                                                       !.message = DeclineText("auto", t.name,
                                                                               selectedOption)]}
        ELSE \* line 284: requestPermission
             /\ objs' = os
             /\ statusLog' = sl
             /\ reported' = rp
             /\ decisions' = Decision(t, o, "ask")
             /\ tasks' = (tasks \ {t}) \cup {[t EXCEPT !.pc = "ask"]}
  /\ UNCHANGED <<sessions, droids, prompts, restarts, cancels, micro, nextSid, sendLog,
                 lines, answers, recVars, errVars, startVars, planVars, modeVars>>

\* decidePermission lines 346-386 for the option selectedOption (rejected: the
\* human turned the request down)
PermissionFinish(t, os, selectedOption, rejected) ==
  LET o == t.obj
      x == t.tool
      isExitSpecMode == t.name = "ExitSpecMode"
      status == IF selectedOption = "cancel" \/ isExitSpecMode THEN "completed" ELSE "in_progress"
  IN
  /\ objs' = IF status = "completed" THEN DelActive(SetStatus(os, o, x, status), o, x)
             ELSE SetStatus(os, o, x, status)
  /\ statusLog' = Log(statusLog, x, status)
  /\ IF isExitSpecMode \/ selectedOption # "cancel"
     THEN /\ reported' = Log(reported, x, status)
          /\ tasks' = (tasks \ {t}) \cup {[t EXCEPT !.pc = "respond", !.option = selectedOption,
                                                    !.by = "human", !.status = status,
                                                    !.rejected = rejected,
                                                    !.message = DeclineText("human", t.name,
                                                                            selectedOption)]}
          /\ UNCHANGED <<answers, droids>>
     ELSE \* no await, no update: the response is written in the same turn
          /\ answers' = WriteAnswer(droids, [t EXCEPT !.status = status,
                                                      !.rejected = rejected,
                                                      !.message = DeclineText("human", t.name,
                                                                              selectedOption)],
                                    selectedOption, "human")
          /\ droids' = [droids EXCEPT ![t.d].busy = FALSE]
          /\ tasks' = tasks \ {t}
          /\ UNCHANGED reported

\* requestPermission settles: the human selected optionId, dismissed the
\* dialog ("dismissed"), or the request failed ("throw")
HumanDecide(t, choice) ==
  /\ micro = <<>>
  /\ t.kind = "perm" /\ t.pc = "ask"
  /\ choice \in buildAcpPermissionOptions(t.name, t.opts) \cup {"dismissed", "throw"}
  /\ LET o == t.obj
         x == t.tool
         picked == IF choice = "dismissed" THEN "cancel" ELSE choice
         mapped == mapExitSpecModeSelection(picked)
     IN
     IF choice = "throw"
     THEN \* lines 296-317
          /\ objs' = DelActive(SetStatus(objs, o, x, "completed"), o, x)
          /\ statusLog' = Log(statusLog, x, "completed")
          /\ reported' = Log(reported, x, "completed")
          /\ tasks' = (tasks \ {t}) \cup {[t EXCEPT !.pc = "respond", !.option = "cancel",
                                                    !.by = "failed", !.status = "completed",
                                                    !.rejected = Rejected(choice),
                                                    !.message = DeclineText("failed", t.name,
                                                                            "cancel")]}
          /\ UNCHANGED <<answers, droids, announced>>
     ELSE IF t.name = "ExitSpecMode" /\ mapped.nextMode # "null"
     THEN \* lines 331-340: the mode changes, current_mode_update is awaited
          /\ objs' = [objs EXCEPT ![o].mode = mapped.nextMode]
          /\ tasks' = (tasks \ {t}) \cup {[t EXCEPT !.pc = "modeSent",
                                                    !.option = mapped.droidSelectedOption,
                                                    !.rejected = Rejected(choice)]}
          /\ announced' = [announced EXCEPT ![objs[o].id] = mapped.nextMode]
          /\ UNCHANGED <<statusLog, reported, answers, droids>>
     ELSE /\ PermissionFinish(t, objs, IF t.name = "ExitSpecMode"
                                       THEN mapped.droidSelectedOption ELSE picked,
                               Rejected(choice))
          /\ UNCHANGED announced
  /\ updateIds' = updateIds \cup {objs[t.obj].id}
  /\ UNCHANGED <<sessions, prompts, restarts, cancels, micro, nextSid, sendLog,
                 lines, decisions, recVars, errVars, startVars, planVars, lastChange, requests>>

\* ... resumed after current_mode_update
PermissionModeSent(t) ==
  /\ micro = <<>>
  /\ t.kind = "perm" /\ t.pc = "modeSent"
  /\ PermissionFinish(t, objs, t.option, t.rejected)
  /\ UNCHANGED <<sessions, prompts, restarts, cancels, micro, nextSid, sendLog, updateIds,
                 lines, decisions, recVars, errVars, startVars, planVars, modeVars>>

\* the request handler returned: the adapter writes the response and the
\* processing chain continues
PermissionRespond(t) ==
  /\ micro = <<>>
  /\ t.kind = "perm" /\ t.pc = "respond"
  /\ answers' = WriteAnswer(droids, t, t.option, t.by)
  /\ droids' = [droids EXCEPT ![t.d].busy = FALSE]
  /\ tasks' = tasks \ {t}
  /\ UNCHANGED <<sessions, objs, prompts, restarts, cancels, micro, nextSid, sendLog,
                 updateIds, lines, statusLog, reported, decisions, recVars, errVars, startVars, planVars, modeVars>>

\* ---------------------------------------------------------------- plan choice
\* extractPlanChoices: the option ids found in the plan text
PlanChoices(plan) == IF plan = "P0" THEN {} ELSE {"A", "B"}

\* a droid.request_permission line for ExitSpecMode whose input carries the
\* plan text plan: the onRequest closure and handlePermission up to the await
\* of buildPermissionToolCallContent
LinePlanPermission(d, x, plan) ==
  /\ CanRead(d)
  /\ lines' = lines + 1
  /\ LET o == Current(d)
         t == [NewTask("perm", d, o, x) EXCEPT !.name = "ExitSpecMode", !.risk = "low",
                                               !.plan = plan]
     IN
     IF o = 0
     THEN \* stale: { selectedOption: "proceed_once" }
          /\ answers' = WriteAnswer(droids, t, "proceed_once", "stale")
          /\ UNCHANGED <<droids, tasks>>
     ELSE /\ droids' = [droids EXCEPT ![d].busy = TRUE]
          /\ tasks' = tasks \cup {t}
          /\ UNCHANGED answers
  /\ UNCHANGED <<sessions, objs, prompts, restarts, cancels, micro, nextSid, sendLog,
                 updateIds, statusLog, reported, decisions, recVars, errVars, startVars, modeVars, planVars>>

\* maybeHandleExitSpecModePlanChoice lines 90-131 (os: the session objects so
\* far): return null, or open the choose-plan dialog; returning null,
\* decidePermission goes on to await emitExitSpecModePlanUpdate
PlanChoice(t, os) ==
  IF os[t.obj].specChoice # "null" \/ PlanChoices(t.plan) = {}
  THEN /\ objs' = os
       /\ tasks' = (tasks \ {t}) \cup {[t EXCEPT !.pc = "planUpdate"]}
       /\ UNCHANGED planDialogs
  ELSE /\ objs' = os
       /\ tasks' = (tasks \ {t}) \cup {[t EXCEPT !.pc = "choose"]}
       /\ planDialogs' = planDialogs + 1

\* line 69: the plan details of this signature were already sent
SameDetails(os, o, plan) == os[o].specPlanDetailsSignature = plan

\* ... resumed: handlePermission lines 86-123, decidePermission lines 192-223
\* and maybeHandleExitSpecModePlanChoice up to its first await
PlanBuilt(t) ==
  /\ micro = <<>>
  /\ t.kind = "perm" /\ t.pc = "build" /\ t.plan # ""
  /\ LET o == t.obj
         x == t.tool
         os == SetStatus(AddActive(objs, o, x), o, x, "pending")
         signed == [os EXCEPT ![o] = [@ EXCEPT
                      !.specChoice = IF os[o].specChoicePromptSignature # t.plan
                                     THEN "null" ELSE @,
                      !.specChoicePromptSignature = t.plan,
                      !.specPlanDetailsSignature = t.plan]]
     IN
     /\ updateIds' = updateIds \cup {objs[o].id}
     /\ IF objs[o].cancelled
        THEN \* lines 192-204
             /\ objs' = DelActive(SetStatus(os, o, x, "completed"), o, x)
             /\ statusLog' = Log(Log(statusLog, x, "pending"), x, "completed")
             /\ reported' = Log(Log(reported, x, "pending"), x, "completed")
             /\ decisions' = Decision(t, o, "reject")
             /\ tasks' = (tasks \ {t}) \cup {[t EXCEPT !.pc = "respond", !.option = "cancel",
                                                       !.by = "cancelled",
                                                       !.status = "completed"]}
             /\ UNCHANGED planVars
        ELSE /\ statusLog' = Log(statusLog, x, "pending")
             /\ reported' = Log(reported, x, "pending")
             /\ presented' = [presented EXCEPT ![objs[o].id] = t.plan]
             /\ IF SameDetails(os, o, t.plan)
                THEN /\ PlanChoice(t, signed)
                     /\ UNCHANGED planDetails
                ELSE \* lines 70-87: the plan-details tool call
                     /\ objs' = signed
                     /\ tasks' = (tasks \ {t}) \cup {[t EXCEPT !.pc = "details"]}
                     /\ planDetails' = planDetails + 1
                     /\ UNCHANGED planDialogs
             /\ UNCHANGED <<decisions, followUps>>
  /\ UNCHANGED <<sessions, droids, prompts, restarts, cancels, micro, nextSid, sendLog,
                 lines, answers, recVars, errVars, startVars, modeVars>>

\* ... resumed after the plan-details tool call
PlanDetailsSent(t) ==
  /\ micro = <<>>
  /\ t.kind = "perm" /\ t.pc = "details"
  /\ PlanChoice(t, objs)
  /\ UNCHANGED <<sessions, droids, prompts, restarts, cancels, micro, nextSid, sendLog,
                 updateIds, lines, statusLog, reported, decisions, answers, recVars, errVars, startVars, modeVars,
                 presented, planDetails, followUps>>

\* the choose-plan dialog settles: the human chose an option of the plan, or
\* skipped or dismissed the dialog ("skip")
PlanChosen(t, outcome) ==
  /\ micro = <<>>
  /\ t.kind = "perm" /\ t.pc = "choose"
  /\ outcome \in PlanChoices(t.plan) \cup {"skip"}
  /\ objs' = [objs EXCEPT ![t.obj].specChoice = outcome]
  /\ tasks' = (tasks \ {t}) \cup
               {IF outcome = "skip" THEN [t EXCEPT !.pc = "planUpdate"]
                ELSE [t EXCEPT !.pc = "close1", !.choice = outcome]}
  /\ updateIds' = updateIds \cup {objs[t.obj].id}
  /\ UNCHANGED <<sessions, droids, prompts, restarts, cancels, micro, nextSid, sendLog,
                 lines, statusLog, reported, decisions, answers, recVars, errVars, startVars, modeVars, planVars>>

\* ... resumed after the update closing the choose-plan tool call: lines 155-173
PlanClose1(t) ==
  /\ micro = <<>>
  /\ t.kind = "perm" /\ t.pc = "close1"
  /\ objs' = DelActive(SetStatus(objs, t.obj, t.tool, "completed"), t.obj, t.tool)
  /\ statusLog' = Log(statusLog, t.tool, "completed")
  /\ reported' = Log(reported, t.tool, "completed")
  /\ tasks' = (tasks \ {t}) \cup {[t EXCEPT !.pc = "close2", !.status = "completed",
                                            !.message = "Continuing in spec mode"]}
  /\ UNCHANGED <<sessions, droids, prompts, restarts, cancels, micro, nextSid, sendLog,
                 updateIds, lines, decisions, answers, recVars, errVars, startVars, modeVars, planVars>>

\* ... resumed after the update closing the ExitSpecMode tool call: sendAgentMessage
PlanClose2(t) ==
  /\ micro = <<>>
  /\ t.kind = "perm" /\ t.pc = "close2"
  /\ tasks' = (tasks \ {t}) \cup {[t EXCEPT !.pc = "close3"]}
  /\ updateIds' = updateIds \cup {objs[t.obj].id}
  /\ UNCHANGED <<sessions, objs, droids, prompts, restarts, cancels, micro, nextSid, sendLog,
                 lines, statusLog, reported, decisions, answers, recVars, errVars, startVars, modeVars, planVars>>

\* the option returned to the subprocess is the approval of the request
PlanAnswerProceed == "proceed_once"

\* line 182: the option returned to the subprocess after a plan option was chosen
PlanAnswer == "cancel"

\* ... resumed after the agent message: the follow-up is scheduled with
\* setTimeout, the handler returns and the adapter writes the response
PlanClose3(t) ==
  /\ micro = <<>>
  /\ t.kind = "perm" /\ t.pc = "close3"
  /\ answers' = WriteAnswer(droids, t, PlanAnswer, "plan")
  /\ droids' = [droids EXCEPT ![t.d].busy = FALSE]
  /\ tasks' = (tasks \ {t}) \cup {[t EXCEPT !.kind = "followUp", !.pc = "timer"]}
  /\ UNCHANGED <<sessions, objs, prompts, restarts, cancels, micro, nextSid, sendLog,
                 updateIds, lines, statusLog, reported, decisions, recVars, errVars, startVars, modeVars, planVars>>

\* the timer of line 176 fires: session.droid.sendMessage, dropped by the
\* adapter when the subprocess is not writable
PlanFollowUp(t) ==
  /\ micro = <<>>
  /\ t.kind = "followUp"
  /\ followUps' = IF writable(droids, objs[t.obj].droid)
                  THEN followUps \cup {[droid |-> objs[t.obj].droid, choice |-> t.choice]}
                  ELSE followUps
  /\ tasks' = tasks \ {t}
  /\ UNCHANGED <<sessions, objs, droids, prompts, restarts, cancels, micro, nextSid, sendLog,
                 updateIds, lines, statusLog, reported, decisions, answers, recVars, errVars, startVars, modeVars,
                 presented, planDetails, planDialogs>>

\* ... resumed after emitExitSpecModePlanUpdate: computeAutoDecision returns
\* null for ExitSpecMode and the human is asked (line 284)
PlanUpdateSent(t) ==
  /\ micro = <<>>
  /\ t.kind = "perm" /\ t.pc = "planUpdate"
  /\ tasks' = (tasks \ {t}) \cup {[t EXCEPT !.pc = "ask"]}
  /\ decisions' = Decision(t, t.obj, "ask")
  /\ updateIds' = updateIds \cup {objs[t.obj].id}
  /\ UNCHANGED <<sessions, objs, droids, prompts, restarts, cancels, micro, nextSid, sendLog,
                 lines, statusLog, reported, answers, recVars, errVars, startVars, modeVars, planVars>>

\* ------------------------------------------------------------ mode and model
\* setSessionMode with a mode id of ACP_MODES
setSessionMode(k, modeId) ==
  /\ micro = <<>>
  /\ sessions[k] # 0
  /\ LET o == sessions[k]
         d == objs[o].droid
     IN
     /\ objs' = [objs EXCEPT ![o].mode = modeId]
     /\ droids' = IF writable(droids, d) THEN [droids EXCEPT ![d].mode = modeId] ELSE droids
  /\ lastChange' = [lastChange EXCEPT ![k] = [mode |-> modeId, by |-> "editor"]]
  /\ requests' = requests + 1
  /\ UNCHANGED <<sessions, prompts, restarts, cancels, micro, nextSid, sendLog, updateIds,
                 toolVars, recVars, errVars, startVars, planVars, announced>>

unstable_setSessionModel(k, modelId) ==
  /\ micro = <<>>
  /\ sessions[k] # 0
  /\ LET o == sessions[k]
         d == objs[o].droid
     IN
     /\ objs' = [objs EXCEPT ![o].model = modelId]
     /\ droids' = IF writable(droids, d) THEN [droids EXCEPT ![d].model = modelId] ELSE droids
  /\ requests' = requests + 1
  /\ UNCHANGED <<sessions, prompts, restarts, cancels, micro, nextSid, sendLog, updateIds,
                 toolVars, recVars, errVars, startVars, planVars, announced, lastChange>>

\* a settings_updated line: the subprocess holds the autonomy level and the
\* model it reports ("none": the line does not carry the setting), which is a
\* change of the session's mode when the subprocess is the session's current one;
\* handleNotification up to the await of current_mode_update, or to its end
LineSettings(d, autonomyLevel, modelId) ==
  /\ CanRead(d)
  /\ lines' = lines + 1
  /\ LET o == Current(d)
         k == droids[d].key
         ds == [droids EXCEPT ![d] = [@ EXCEPT
                  !.mode = IF autonomyLevel = "none" THEN @ ELSE autonomyLevel,
                  !.model = IF modelId = "none" THEN @ ELSE modelId]]
     IN
     /\ droids' = ds
     /\ lastChange' = IF o # 0 /\ autonomyLevel \notin {"none", droids[d].mode}
                      THEN [lastChange EXCEPT ![k] = [mode |-> autonomyLevel, by |-> "droid"]]
                      ELSE lastChange
     /\ IF o = 0 \/ objs[o].cancelled
        THEN UNCHANGED <<objs, tasks, announced, updateIds>>
        ELSE IF autonomyLevel \notin {"none", objs[o].mode}
        THEN /\ announced' = [announced EXCEPT ![objs[o].id] = autonomyLevel]
             /\ updateIds' = updateIds \cup {objs[o].id}
             /\ objs' = [objs EXCEPT ![o].mode = autonomyLevel]
             /\ tasks' = tasks \cup {[NewTask("settings", d, o, 0) EXCEPT !.pc = "model",
                                                                     !.model = modelId]}
        ELSE /\ objs' = IF modelId = "none" THEN objs ELSE [objs EXCEPT ![o].model = modelId]
             /\ UNCHANGED <<tasks, announced, updateIds>>
  /\ UNCHANGED <<sessions, prompts, restarts, cancels, micro, nextSid, sendLog,
                 statusLog, reported, decisions, answers, recVars, errVars, startVars, planVars, requests>>

\* ... resumed after current_mode_update: lines 45-47
SettingsModel(t) ==
  /\ micro = <<>>
  /\ t.kind = "settings"
  /\ objs' = IF t.model = "none" THEN objs ELSE [objs EXCEPT ![t.obj].model = t.model]
  /\ tasks' = tasks \ {t}
  /\ UNCHANGED <<sessions, droids, prompts, restarts, cancels, micro, nextSid, sendLog,
                 updateIds, lines, statusLog, reported, decisions, answers, recVars, errVars, startVars, planVars, modeVars>>

\* ------------------------------------------------------------------ compress
\* a slash command sent its last message: handleSlashCommand returns true and
\* prompt returns end_turn
SlashReturn(p) ==
  /\ micro = <<>>
  /\ prompts[p].pc = "slashMsg"
  /\ prompts' = [prompts EXCEPT ![p] = [@ EXCEPT !.pc = "done", !.result = "end_turn"]]
  /\ UNCHANGED <<sessions, objs, droids, restarts, cancels, micro, nextSid, sendLog, updateIds,
                 toolVars, recVars, errVars, startVars, planVars, modeVars>>

\* handleCompress resumes after "Compressing conversation history": captureNextAssistantText
CompressCapture(p) ==
  /\ micro = <<>>
  /\ prompts[p].pc = "compress73"
  /\ LET o == prompts[p].obj IN
     IF objs[o].capture # 0
     THEN \* "Capture already in progress": the catch block sends its message
          /\ prompts' = [prompts EXCEPT ![p].pc = "compress82"]
          /\ updateIds' = updateIds \cup {objs[o].id}
          /\ UNCHANGED <<objs, sendLog>>
     ELSE /\ objs' = [objs EXCEPT ![o].capture = p]
          /\ prompts' = [prompts EXCEPT ![p].pc = "capturing"]
          /\ sendLog' = IF writable(droids, objs[o].droid)
                        THEN sendLog \cup {[p |-> p, droid |-> objs[o].droid,
                                            restarting |-> RestartInFlight(objs[o].id)]}
                        ELSE sendLog
          /\ UNCHANGED updateIds
  /\ UNCHANGED <<sessions, droids, restarts, cancels, micro, nextSid, toolVars, recVars, errVars, startVars, planVars, modeVars>>

\* the "Failed to generate summary" message was sent: handleCompress returns
CompressFailed(p) ==
  /\ micro = <<>>
  /\ prompts[p].pc = "compress82"
  /\ prompts' = [prompts EXCEPT ![p] = [@ EXCEPT !.pc = "done", !.result = "end_turn"]]
  /\ UNCHANGED <<sessions, objs, droids, restarts, cancels, micro, nextSid, sendLog, updateIds,
                 toolVars, recVars, errVars, startVars, planVars, modeVars>>

\* the two-minute timer of a capture fires
CaptureTimeout(p) ==
  /\ micro = <<>>
  /\ prompts[p].pc = "capturing"
  /\ LET o == prompts[p].obj IN
     /\ objs[o].capture = p
     /\ objs' = [objs EXCEPT ![o].capture = 0]
     /\ prompts' = RejectCapture(prompts, p)
     /\ updateIds' = updateIds \cup {objs[o].id}
  /\ UNCHANGED <<sessions, droids, restarts, cancels, micro, nextSid, sendLog, toolVars, recVars, errVars, startVars, planVars, modeVars>>

\* an assistant message line whose text closes the <summary> block; empty: the
\* block holds no text.  The capture resolves and handleCompress runs on to
\* its next message.
LineSummary(d, empty) ==
  /\ CanRead(d)
  /\ lines' = lines + 1
  /\ LET o == Current(d)
         p == objs[o].capture
     IN
     IF o = 0 \/ objs[o].cancelled \/ p = 0
     THEN UNCHANGED <<objs, prompts, updateIds>>
     ELSE /\ objs' = [objs EXCEPT ![o].capture = 0]
          /\ prompts' = [prompts EXCEPT ![p] = [@ EXCEPT
                           !.pc = IF empty THEN "slashMsg" ELSE "compress103",
                           !.oldMode = objs[o].mode, !.oldModel = objs[o].model]]
          /\ updateIds' = updateIds \cup {objs[o].id}
  /\ UNCHANGED <<sessions, droids, restarts, cancels, micro, nextSid, sendLog,
                 tasks, statusLog, reported, decisions, answers, recVars, errVars, startVars, planVars, modeVars>>

\* handleCompress resumes after "Starting a fresh Droid session": a new
\* subprocess is created and started
CompressStart(p) ==
  /\ micro = <<>>
  /\ prompts[p].pc = "compress103"
  /\ droids' = Append(droids, NewDroid)
  /\ prompts' = [prompts EXCEPT ![p] = [@ EXCEPT !.pc = "compress110", !.droid = Len(droids) + 1]]
  /\ UNCHANGED <<sessions, objs, restarts, cancels, micro, nextSid, sendLog, updateIds,
                 toolVars, recVars, errVars, startVars, planVars, modeVars>>

\* newDroid.start() settles: rejected, handleCompress and prompt throw;
\* resolved, the new session object is attached and the mode re-applied
CompressStarted(p, ok) ==
  /\ micro = <<>>
  /\ prompts[p].pc = "compress110"
  /\ LET o == prompts[p].obj
         d == prompts[p].droid
         k == objs[o].id
         n == Len(objs) + 1
     IN
     IF ok
     THEN /\ droids' = [droids EXCEPT ![d] = [@ EXCEPT !.sid = nextSid, !.key = k,
                                                       !.mode = prompts[p].oldMode]]
          /\ objs' = Append(objs, NewSessionObject(k, d, nextSid, prompts[p].oldMode))
          /\ sessions' = [sessions EXCEPT ![k] = n]
          /\ prompts' = [prompts EXCEPT ![p] = [@ EXCEPT !.pc = "compress125", !.newObj = n]]
          /\ nextSid' = nextSid + 1
          /\ updateIds' = updateIds \cup {k}
          /\ announced' = [announced EXCEPT ![k] = prompts[p].oldMode]
     ELSE /\ droids' = [droids EXCEPT ![d] = [@ EXCEPT !.process = "null", !.osAlive = FALSE]]
          /\ prompts' = [prompts EXCEPT ![p] = [@ EXCEPT !.pc = "done", !.result = "error"]]
          /\ UNCHANGED <<objs, sessions, nextSid, updateIds, announced>>
  /\ UNCHANGED <<restarts, cancels, micro, sendLog, toolVars, recVars, errVars, startVars, planVars, lastChange, requests>>

\* handleCompress resumes after current_mode_update: the model is re-applied,
\* then oldDroid.stop()
CompressReapplied(p) ==
  /\ micro = <<>>
  /\ prompts[p].pc = "compress125"
  /\ LET re == ReapplyModel(objs, droids, prompts[p].newObj, prompts[p].oldModel) IN
     /\ objs' = re.o
     /\ droids' = [re.d EXCEPT ![objs[prompts[p].obj].droid].process = "null"]
  /\ prompts' = [prompts EXCEPT ![p].pc = "compress138"]
  /\ UNCHANGED <<sessions, restarts, cancels, micro, nextSid, sendLog, updateIds,
                 toolVars, recVars, errVars, startVars, planVars, modeVars>>

\* handleCompress resumes after stop(): "Compression complete"
CompressStopped(p) ==
  /\ micro = <<>>
  /\ prompts[p].pc = "compress138"
  /\ prompts' = [prompts EXCEPT ![p].pc = "slashMsg"]
  /\ updateIds' = updateIds \cup {objs[prompts[p].obj].id}
  /\ UNCHANGED <<sessions, objs, droids, restarts, cancels, micro, nextSid, sendLog,
                 toolVars, recVars, errVars, startVars, planVars, modeVars>>

\* ------------------------------------------------------------ adapter start
\* a promise settles once: resolve and reject of a settled promise do nothing
Settle(result, outcome) == IF result = "pending" THEN outcome ELSE result

\* an initialization timer that rejects nothing
TimeoutRejectsNever(pending) == FALSE

\* the timer callback of start(): if (initReject) initReject(...)
TimeoutRejects(pending) == pending

\* DroidAdapter.start(): the websearch proxy is off, starts, or fails to start
\* (then start() throws before it spawns); after spawn() the init promise is
\* created, droid.initialize_session is sent and the timer is armed
start(proxy) ==
  /\ startResult = "none"
  /\ IF proxy = "throws"
     THEN /\ startResult' = "rejected"
          /\ UNCHANGED <<initReject, initTimer, childProcess>>
     ELSE /\ startResult' = "pending"
          /\ initReject' = TRUE
          /\ initTimer' = "armed"
          /\ childProcess' = "spawned"
  /\ UNCHANGED <<droidSid, lifeVars, toolVars, recVars, modeVars, planVars, errVars>>

\* the child process emits "error": the spawn failed
SpawnError ==
  /\ childProcess = "spawned"
  /\ droidSid = "null"
  /\ childProcess' = "failed"
  /\ startResult' = IF initReject THEN Settle(startResult, "rejected") ELSE startResult
  /\ UNCHANGED <<initReject, initTimer, droidSid,
                 lifeVars, toolVars, recVars, modeVars, planVars, errVars>>

\* handleLine for a response line: isError, an error response; otherwise a
\* result carrying the session id
InitResponse(isError) ==
  /\ childProcess = "spawned"
  /\ processingChain = "ok"
  /\ IF initReject
     THEN /\ startResult' = Settle(startResult, IF isError THEN "rejected" ELSE "resolved")
          /\ droidSid' = IF isError THEN droidSid ELSE "set"
          /\ initReject' = FALSE
     ELSE UNCHANGED <<startResult, droidSid, initReject>>
  /\ UNCHANGED <<initTimer, childProcess,
                 lifeVars, toolVars, recVars, modeVars, planVars, errVars>>

\* the child process emits "exit": process = null, the exit handlers run
ProcessExit ==
  /\ childProcess = "spawned"
  /\ childProcess' = "exited"
  /\ UNCHANGED <<startResult, initReject, initTimer, droidSid,
                 lifeVars, toolVars, recVars, modeVars, planVars, errVars>>

\* the initialization timer fires
InitTimeout ==
  /\ initTimer = "armed"
  /\ initTimer' = "fired"
  /\ IF TimeoutRejects(initReject)
     THEN /\ startResult' = Settle(startResult, "rejected")
          /\ initReject' = FALSE
     ELSE UNCHANGED <<startResult, initReject>>
  /\ UNCHANGED <<childProcess, droidSid,
                 lifeVars, toolVars, recVars, modeVars, planVars, errVars>>

\* ------------------------------------------------------- error notifications
\* case "error", after the await: session.promptResolve({ stopReason: "end_turn" })
ErrorResolves(ps, p) == ResolvePrompt(ps, p, "end_turn")

\* the error notification never reaches the case "error": the adapter's
\* subprocess is not the session's current one, or the session is cancelled
ErrorDropped(o) == IF o = 0 THEN TRUE ELSE objs[o].cancelled

\* a line with an explicit error notification: the adapter emits "error" and
\* handleNotification runs to the await of the agent_message_chunk
LineError(d) ==
  /\ CanRead(d)
  /\ lines' = lines + 1
  /\ LET o == Current(d)
         e == [obj |-> o, dropped |-> ErrorDropped(o), sent |-> FALSE,
               prompt |-> IF o = 0 THEN 0 ELSE objs[o].promptResolve,
               capture |-> IF o = 0 THEN 0 ELSE objs[o].capture]
     IN
     /\ errorLog' = Append(errorLog, e)
     /\ IF ErrorDropped(o)
        THEN UNCHANGED <<objs, prompts, tasks>>
        ELSE /\ objs' = [objs EXCEPT ![o].capture = 0]
             /\ prompts' = RejectCapture(prompts, objs[o].capture)
             /\ tasks' = tasks \cup {[NewTask("error", d, o, Len(errorLog) + 1)
                                       EXCEPT !.pc = "message"]}
  /\ UNCHANGED <<sessions, droids, restarts, cancels, micro, nextSid, sendLog, updateIds,
                 statusLog, reported, decisions, answers, recVars, startVars, planVars, modeVars>>

\* ... resumed after the "Error: ..." message was sent: the prompt held by
\* the session object is resolved
ErrorSent(t) ==
  /\ micro = <<>>
  /\ t.kind = "error" /\ t.pc = "message"
  /\ updateIds' = updateIds \cup {objs[t.obj].id}
  /\ errorLog' = [errorLog EXCEPT ![t.tool].sent = TRUE]
  /\ prompts' = ErrorResolves(prompts, objs[t.obj].promptResolve)
  /\ objs' = [objs EXCEPT ![t.obj].promptResolve = 0]
  /\ tasks' = tasks \ {t}
  /\ UNCHANGED <<sessions, droids, restarts, cancels, micro, nextSid, sendLog, lines,
                 statusLog, reported, decisions, answers, recVars, startVars, planVars, modeVars>>

\* ------------------------------------------------------------ the reconciler
\* DroidAdapter.handleLine for working-state, message and error lines of one
\* adapter, and the grace timer armed by an idle line.  The emit of a line
\* awaits handlers that return at once, so a line is handled in one turn.
LineKinds == {"streaming", "idle", "assistant", "user", "error"}

RecLines == SelectSeq(recTrace, LAMBDA e : e \in LineKinds)

\* an idle line completing at once
IdleEmitsAtOnce(streaming) == <<"e:complete">>

\* what an idle line emits after the working_state notification
IdleEmits(streaming) == IF streaming THEN <<>> ELSE <<"e:complete">>

\* an assistant message never completing
AssistantEmitsNothing(pending) == <<>>

\* what an assistant message emits after the message notification
AssistantEmits(pending) == IF pending THEN <<"e:complete">> ELSE <<>>

\* what the grace timer emits when it fires
TimerEmits(pending) == IF pending THEN <<"e:complete">> ELSE <<>>

\* a grace timer that leaves the idle signal pending after it completed
TimerKeepsPending(pending) == pending

\* the timer callback, before it emits: pendingIdle = false
TimerClears(pending) == FALSE

\* a parse error escaping handleLine: the chain of lines stays rejected
ParseErrorRejects(chain) == "rejected"

\* handleLine's catch: the parse error is logged and the chain goes on
ParseError(chain) == chain

\* a line that JSON.parse rejects, or whose value is not a message object
handleMalformedLine ==
  /\ processingChain = "ok"
  /\ recTrace' = Append(recTrace, "malformed")
  /\ processingChain' = ParseError(processingChain)
  /\ UNCHANGED <<isStreamingAssistant, pendingIdle, pendingIdleTimer,
                 lifeVars, toolVars, modeVars, planVars, errVars, startVars>>

handleLine(kind) ==
  /\ processingChain = "ok"
  /\ Len(RecLines) < MaxRecLines
  /\ CASE kind = "streaming" ->
            /\ recTrace' = recTrace \o <<kind, "e:working_state">>
            /\ isStreamingAssistant' = TRUE
            /\ pendingIdle' = FALSE
            /\ pendingIdleTimer' = "null"
       [] kind = "idle" ->
            /\ recTrace' = recTrace \o <<kind, "e:working_state">> \o IdleEmits(isStreamingAssistant)
            /\ pendingIdle' = (isStreamingAssistant \/ pendingIdle)
            /\ pendingIdleTimer' = IF isStreamingAssistant THEN "armed" ELSE pendingIdleTimer
            /\ UNCHANGED isStreamingAssistant
       [] kind = "assistant" ->
            /\ recTrace' = recTrace \o <<kind, "e:message:assistant">> \o AssistantEmits(pendingIdle)
            /\ isStreamingAssistant' = FALSE
            /\ pendingIdleTimer' = "null"
            /\ pendingIdle' = FALSE
       [] kind = "user" ->
            /\ recTrace' = recTrace \o <<kind, "e:message:user">>
            /\ UNCHANGED <<isStreamingAssistant, pendingIdle, pendingIdleTimer>>
       [] kind = "error" ->
            /\ recTrace' = recTrace \o <<kind, "e:error">>
            /\ isStreamingAssistant' = FALSE
            /\ pendingIdle' = FALSE
            /\ UNCHANGED pendingIdleTimer
  /\ UNCHANGED <<processingChain, lifeVars, toolVars, modeVars, planVars, errVars, startVars>>

\* the callback of the 250 ms timer
pendingIdleTimeout ==
  /\ pendingIdleTimer = "armed"
  /\ recTrace' = recTrace \o <<"timer">> \o TimerEmits(pendingIdle)
  /\ IF ~pendingIdle
     THEN /\ pendingIdleTimer' = "fired"
          /\ UNCHANGED <<isStreamingAssistant, pendingIdle>>
     ELSE /\ pendingIdle' = TimerClears(pendingIdle)
          /\ isStreamingAssistant' = FALSE
          /\ pendingIdleTimer' = "null"
  /\ UNCHANGED <<processingChain, lifeVars, toolVars, modeVars, planVars, errVars, startVars>>

\* ----------------------------------------------------------- specifications
Restarting ==
  \/ restartDroidSession
  \/ \E r \in Idx(restarts), ok \in BOOLEAN : RestartStarted(r, ok)
  \/ \E r \in Idx(restarts) : RestartReapplied(r)
  \/ \E d \in Idx(droids) : DroidExit(d)

Next ==
  \/ newSession
  \/ \E k \in Keys : Len(prompts) < MaxPrompts /\ prompt(k)
  \/ \E k \in Keys : Len(cancels) < MaxCancels /\ cancel(k)
  \/ PromptResume
  \/ \E p \in Idx(prompts) : PromptTimeout(p)
  \/ Restarting

Spec == Init /\ [][Next]_vars

\* every pending callback is eventually run: the microtasks, the settling of
\* droid.start() (it has a timer of its own), the acknowledgement of the editor
\* awaited by a restart, and the five-minute timer of every prompt; the editor
\* and the subprocess are free to stay silent
ReturnFairness ==
  /\ WF_vars(restartDroidSession)
  /\ WF_vars(PromptResume)
  /\ WF_vars(\E r \in Idx(restarts), ok \in BOOLEAN : RestartStarted(r, ok))
  /\ WF_vars(\E r \in Idx(restarts) : RestartReapplied(r))
  /\ \A p \in 1 .. MaxPrompts : WF_vars(p \in Idx(prompts) /\ PromptTimeout(p))

\* the session lifecycle with its callbacks scheduled fairly
SpecReturn == Init /\ [][Next]_vars /\ ReturnFairness

\* the same lifecycle over a shorter editor script: enough for a prompt, one
\* cancellation and the restarts they cause
NextIds ==
  \/ newSession
  \/ \E k \in Keys : Len(prompts) < MaxIdPrompts /\ prompt(k)
  \/ \E k \in Keys : Len(cancels) < MaxIdCancels /\ cancel(k)
  \/ PromptResume
  \/ \E p \in Idx(prompts) : PromptTimeout(p)
  \/ Restarting

SpecIds == Init /\ [][NextIds]_vars

\* prompts and cancel notifications of the editor, the cancels that find
\* nothing in flight included
NextCancel ==
  \/ newSession
  \/ \E k \in Keys : Len(prompts) < MaxCancelPrompts /\ prompt(k)
  \/ \E k \in Keys : Len(cancels) < MaxCancelCalls /\ cancel(k)
  \/ \E k \in Keys : Len(cancels) < MaxCancelCalls /\ cancelNoop(k)
  \/ PromptResume
  \/ \E p \in Idx(prompts) : PromptTimeout(p)
  \/ Restarting

SpecCancel == Init /\ [][NextCancel]_vars

\* prompts, "/compress" prompts and cancels of a session whose subprocess
\* sends summary lines
NextCompress ==
  \/ newSession
  \/ \E k \in Keys : Len(prompts) < MaxCompressPrompts /\ prompt(k)
  \/ \E k \in Keys : Len(prompts) < MaxCompressPrompts /\ promptCompress(k)
  \/ \E k \in Keys : Len(cancels) < MaxCompressCancels /\ cancel(k)
  \/ PromptResume
  \/ restartDroidSession
  \/ \E r \in Idx(restarts) : RestartStarted(r, TRUE)
  \/ \E r \in Idx(restarts) : RestartReapplied(r)
  \/ \E d \in Idx(droids) : DroidExit(d)
  \/ \E p \in Idx(prompts) : SlashReturn(p)
  \/ \E p \in Idx(prompts) : CompressCapture(p)
  \/ \E p \in Idx(prompts) : CompressFailed(p)
  \/ \E p \in Idx(prompts) : CaptureTimeout(p)
  \/ \E d \in Idx(droids), empty \in BOOLEAN :
       lines < MaxSummaryLines /\ LineSummary(d, empty)
  \/ \E p \in Idx(prompts) : CompressStart(p)
  \/ \E p \in Idx(prompts), ok \in BOOLEAN : CompressStarted(p, ok)
  \/ \E p \in Idx(prompts) : CompressReapplied(p)
  \/ \E p \in Idx(prompts) : CompressStopped(p)

SpecCompress == Init /\ [][NextCompress]_vars

\* tool-use lines of a session that is cancelled, restarted, or whose
\* subprocess exits
NextExit ==
  \/ newSession
  \/ \E d \in Idx(droids), x \in Tools, name \in ToolNames :
       lines < MaxExitLines /\ LineToolUse(d, x, name)
  \/ \E t \in tasks : ToolUseEmit(t)
  \/ \E k \in Keys : Len(cancels) < MaxExitCancels /\ cancel(k)
  \/ \E c \in Idx(cancels) : cancelFinalize(c)
  \/ restartDroidSession
  \/ \E r \in Idx(restarts), ok \in BOOLEAN : RestartStarted(r, ok)
  \/ \E r \in Idx(restarts) : RestartReapplied(r)
  \/ \E d \in Idx(droids) : DroidExit(d)

SpecExit == Init /\ [][NextExit]_vars

\* mode and model changes by the editor and by the subprocess around a prompt,
\* a cancel and the restart it causes
NextMode ==
  \/ newSession
  \/ \E k \in Keys : Len(prompts) < MaxModePrompts /\ prompt(k)
  \/ \E k \in Keys : Len(cancels) < MaxModeCancels /\ cancel(k)
  \/ restartDroidSession
  \/ \E r \in Idx(restarts), ok \in BOOLEAN, init \in InitResults : RestartStartedWith(r, ok, init)
  \/ \E r \in Idx(restarts) : RestartReapplied(r)
  \/ \E k \in Keys, modeId \in ModeChanges : requests < MaxModeRequests /\ setSessionMode(k, modeId)
  \/ \E k \in Keys, modelId \in Models :
       requests < MaxModeRequests /\ unstable_setSessionModel(k, modelId)
  \/ \E d \in Idx(droids), level \in ModeChanges \cup {"none"}, modelId \in Models \cup {"none"} :
       lines < MaxModeLines /\ LineSettings(d, level, modelId)
  \/ \E t \in tasks : SettingsModel(t)

SpecMode == Init /\ [][NextMode]_vars

\* the subprocess ends after stop() was called on its adapter
StoppedExit(d) == droids[d].process = "null" /\ DroidExit(d)

\* droid.start() settles; a fresh start succeeds
LiveStarted(r, ok) == (ok \/ restarts[r].pc = "resume") /\ RestartStarted(r, ok)

\* a prompt with tool calls, a cancel and the restart it causes, with
\* subprocesses that end only when they are stopped
NextLive ==
  \/ newSession
  \/ \E k \in Keys : Len(prompts) < MaxLivePrompts /\ prompt(k)
  \/ \E d \in Idx(droids), x \in Tools, name \in ToolNames :
       lines < MaxLiveLines /\ LineToolUse(d, x, name)
  \/ \E t \in tasks : ToolUseEmit(t)
  \/ \E k \in Keys : Len(cancels) < MaxLiveCancels /\ cancel(k)
  \/ \E c \in Idx(cancels) : cancelFinalize(c)
  \/ PromptResume
  \/ restartDroidSession
  \/ \E r \in Idx(restarts), ok \in BOOLEAN : LiveStarted(r, ok)
  \/ \E r \in Idx(restarts) : RestartReapplied(r)
  \/ \E d \in Idx(droids) : StoppedExit(d)

\* every pending continuation is eventually run: the microtasks (the restart
\* requested by cancel or prompt, a prompt resuming after a restart), the
\* acknowledgements of the editor (cancelFinalize, RestartReapplied) and the
\* settling of droid.start()
LiveFairness ==
  /\ WF_vars(restartDroidSession)
  /\ WF_vars(PromptResume)
  /\ WF_vars(\E c \in Idx(cancels) : cancelFinalize(c))
  /\ WF_vars(\E r \in Idx(restarts), ok \in BOOLEAN : LiveStarted(r, ok))
  /\ WF_vars(\E r \in Idx(restarts) : RestartReapplied(r))

SpecLive == Init /\ [][NextLive]_vars /\ LiveFairness

\* ExitSpecMode requests that carry a plan, the dialogs they open, and a
\* cancel with the restart it causes
NextPlan ==
  \/ newSession
  \/ \E d \in Idx(droids), x \in Tools, plan \in Plans :
       lines < MaxPlanLines /\ LinePlanPermission(d, x, plan)
  \/ \E t \in tasks : PlanBuilt(t)
  \/ \E t \in tasks : PlanDetailsSent(t)
  \/ \E t \in tasks, outcome \in {"A", "B", "skip"} : PlanChosen(t, outcome)
  \/ \E t \in tasks : PlanClose1(t)
  \/ \E t \in tasks : PlanClose2(t)
  \/ \E t \in tasks : PlanClose3(t)
  \/ \E t \in tasks : PlanFollowUp(t)
  \/ \E t \in tasks : PlanUpdateSent(t)
  \/ \E t \in tasks, choice \in {"off", "spec", "dismissed", "throw"} : HumanDecide(t, choice)
  \/ \E t \in tasks : PermissionModeSent(t)
  \/ \E t \in tasks : PermissionRespond(t)
  \/ \E k \in Keys : Len(cancels) < MaxPlanCancels /\ cancel(k)
  \/ \E c \in Idx(cancels) : cancelFinalize(c)
  \/ restartDroidSession
  \/ \E r \in Idx(restarts) : RestartStarted(r, TRUE)
  \/ \E r \in Idx(restarts) : RestartReapplied(r)

SpecPlan == Init /\ [][NextPlan]_vars

NextTools ==
  \/ newSession
  \/ \E k \in Keys : Len(cancels) < MaxToolCancels /\ cancel(k)
  \/ \E c \in Idx(cancels) : cancelFinalize(c)
  \/ restartDroidSession
  \/ \E r \in Idx(restarts) : RestartStarted(r, TRUE)
  \/ \E r \in Idx(restarts) : RestartReapplied(r)
  \/ \E d \in Idx(droids), x \in Tools, name \in ToolNames :
       lines < MaxLines /\ LineToolUse(d, x, name)
  \/ \E d \in Idx(droids), x \in Tools, isError \in BOOLEAN :
       lines < MaxLines /\ LineToolResult(d, x, isError)
  \/ \E d \in Idx(droids), x \in Tools, name \in ToolNames, risk \in Risks, opts \in OptionLists :
       lines < MaxLines /\ LinePermission(d, x, name, risk, opts)
  \/ \E t \in tasks : ToolUseEmit(t)
  \/ \E t \in tasks : ToolResultEmit(t)
  \/ \E t \in tasks : ToolResultRecord(t)
  \/ \E t \in tasks : PermissionBuilt(t)
  \/ \E t \in tasks, choice \in Modes \cup {"proceed_once", "proceed_edit", "cancel",
                                            "dismissed", "throw"} :
       HumanDecide(t, choice)
  \/ \E t \in tasks : PermissionModeSent(t)
  \/ \E t \in tasks : PermissionRespond(t)

SpecTools == Init /\ [][NextTools]_vars

\* permission requests of every shape around a cancel and its restart
NextPerm ==
  \/ newSession
  \/ \E d \in Idx(droids), x \in Tools, name \in ToolNames, risk \in Risks, opts \in OptionLists :
       lines < MaxPermLines /\ LinePermission(d, x, name, risk, opts)
  \/ \E d \in Idx(droids) : lines < MaxPermLines /\ LinePermissionNoToolUse(d)
  \/ \E d \in Idx(droids) : lines < MaxPermLines /\ LinePermissionUnhandled(d)
  \/ \E t \in tasks : PermissionBuilt(t)
  \/ \E t \in tasks, choice \in Modes \cup {"proceed_once", "proceed_edit", "cancel",
                                            "dismissed", "throw"} :
       HumanDecide(t, choice)
  \/ \E t \in tasks : PermissionModeSent(t)
  \/ \E t \in tasks : PermissionRespond(t)
  \/ \E k \in Keys : Len(cancels) < MaxPermCancels /\ cancel(k)
  \/ \E c \in Idx(cancels) : cancelFinalize(c)
  \/ restartDroidSession
  \/ \E r \in Idx(restarts), ok \in BOOLEAN : RestartStarted(r, ok)
  \/ \E r \in Idx(restarts) : RestartReapplied(r)

SpecPerm == Init /\ [][NextPerm]_vars

\* permission requests with every shape of option list, decided by the
\* policy table or escalated to a human who dismisses the dialog
NextAuto ==
  \/ newSession
  \/ \E d \in Idx(droids), x \in Tools, name \in ToolNames, risk \in Risks,
        opts \in AutoOptionLists :
       lines < MaxAutoLines /\ LinePermission(d, x, name, risk, opts)
  \/ \E t \in tasks : PermissionBuilt(t)
  \/ \E t \in tasks, choice \in {"dismissed", "throw"} : HumanDecide(t, choice)
  \/ \E t \in tasks : PermissionModeSent(t)
  \/ \E t \in tasks : PermissionRespond(t)

SpecAuto == Init /\ [][NextAuto]_vars

\* tool-use and tool-result lines of a session, the tool-result lines with
\* every shape of identifier
NextResult ==
  \/ newSession
  \/ \E d \in Idx(droids), x \in Tools, name \in ToolNames :
       lines < MaxResultLines /\ LineToolUse(d, x, name)
  \/ \E d \in Idx(droids), n \in ToolResultLines, isError \in BOOLEAN :
       lines < MaxResultLines /\ handleToolResult(d, n, isError)
  \/ \E t \in tasks : ToolUseEmit(t)
  \/ \E t \in tasks : ToolResultEmit(t)
  \/ \E t \in tasks : ToolResultRecord(t)

SpecResult == Init /\ [][NextResult]_vars

NextRec ==
  \/ \E kind \in LineKinds : handleLine(kind)
  \/ pendingIdleTimeout

\* prompts, "/compress" prompts and a cancel of a session whose subprocess
\* reports errors
NextError ==
  \/ newSession
  \/ \E k \in Keys : Len(prompts) < MaxErrorPrompts /\ prompt(k)
  \/ \E k \in Keys : Len(prompts) < MaxErrorPrompts /\ promptCompress(k)
  \/ \E k \in Keys : Len(cancels) < MaxErrorCancels /\ cancel(k)
  \/ PromptResume
  \/ restartDroidSession
  \/ \E r \in Idx(restarts) : RestartStarted(r, TRUE)
  \/ \E r \in Idx(restarts) : RestartReapplied(r)
  \/ \E p \in Idx(prompts) : SlashReturn(p)
  \/ \E p \in Idx(prompts) : CompressCapture(p)
  \/ \E p \in Idx(prompts) : CompressFailed(p)
  \/ \E d \in Idx(droids) : lines < MaxErrorLines /\ LineError(d)
  \/ \E t \in tasks : ErrorSent(t)

SpecError == Init /\ [][NextError]_vars

SpecRec == Init /\ [][NextRec]_vars

\* one adapter from start(): the child process, its initialization handshake
\* and timer, and the lines it writes
NextStart ==
  \/ \E proxy \in {"off", "ok", "throws"} : start(proxy)
  \/ SpawnError
  \/ \E isError \in BOOLEAN : InitResponse(isError)
  \/ ProcessExit
  \/ InitTimeout
  \/ \E kind \in LineKinds : childProcess = "spawned" /\ handleLine(kind)
  \/ pendingIdleTimeout

SpecStart == Init /\ [][NextStart]_vars

\* the reconciler of an adapter whose subprocess also writes malformed lines
NextParse ==
  \/ \E kind \in LineKinds : handleLine(kind)
  \/ pendingIdleTimeout
  \/ /\ Cardinality({i \in Idx(recTrace) : recTrace[i] = "malformed"}) < MaxMalformedLines
     /\ handleMalformedLine

SpecParse == Init /\ [][NextParse]_vars

\* -------------------------------------------------------------------- claims
\* C1: for every session, at every instant, at most one prompt call is
\* suspended awaiting turn completion.
C1_AtMostOneSuspendedPrompt ==
  \A k \in Keys :
    Cardinality({p \in Idx(prompts) : prompts[p].key = k /\ prompts[p].pc = "suspended"}) <= 1

\* C2: for every tool-call identifier, the statuses recorded for it and the
\* statuses reported to the editor only move forward from pending and
\* in_progress to completed or failed, and never change after completed or
\* failed.
C2_ToolStatusOnlyForward ==
  \A x \in Tools : statusLog[x].forward /\ reported[x].forward

\* C3 as stated: when the adapter handled exactly the lines streaming-start,
\* idle, assistant message, it emitted "complete" exactly once, and after the
\* assistant message.
C3_CompleteOnceAfterMessage ==
  RecLines = <<"streaming", "idle", "assistant">> =>
    LET At(e) == Min({i \in Idx(recTrace) : recTrace[i] = e}) IN
    /\ Cardinality({i \in Idx(recTrace) : recTrace[i] = "e:complete"}) = 1
    /\ At("e:complete") > At("e:message:assistant")

\* C3 amended: when the adapter handled exactly the lines streaming-start,
\* idle, assistant message, it emitted "complete" exactly once; the complete
\* follows the assistant message if the message was handled before the grace
\* timer fired, and precedes it if the timer fired first.
C3_CompleteOnceAfterMessageUnlessTimerFirst ==
  RecLines = <<"streaming", "idle", "assistant">> =>
    LET At(e) == Min({i \in Idx(recTrace) : recTrace[i] = e})
        timerFirst == InSeq(recTrace, "timer") /\ At("timer") < At("assistant")
    IN
    /\ Cardinality({i \in Idx(recTrace) : recTrace[i] = "e:complete"}) = 1
    /\ ~timerFirst => At("e:complete") > At("e:message:assistant")
    /\ timerFirst => At("e:complete") < At("e:message:assistant")

\* C3 witness: the three lines were handled, the timer did not fire, and
\* complete was emitted after the message while the idle flag was pending
C3_Witness ==
  /\ RecLines = <<"streaming", "idle", "assistant">>
  /\ ~InSeq(recTrace, "timer")
  /\ recTrace[Len(recTrace)] = "e:complete"
  /\ pendingIdleTimer = "null"

\* C4: when the adapter handled exactly the lines streaming-start, idle, it
\* emitted no "complete" before the grace timer fired and exactly one when it
\* fired.
C4_CompleteOnlyWhenGraceElapses ==
  RecLines = <<"streaming", "idle">> =>
    LET n(e) == Cardinality({i \in Idx(recTrace) : recTrace[i] = e}) IN
    /\ n("timer") <= 1
    /\ n("e:complete") = n("timer")
    /\ (n("timer") = 0) = (pendingIdleTimer = "armed")

\* C4 witness: streaming-start and idle were handled and the timer fired
C4_Witness ==
  /\ RecLines = <<"streaming", "idle">>
  /\ recTrace[Len(recTrace)] = "e:complete"
  /\ InSeq(recTrace, "timer")

\* C5 as stated: every decision of the engine for a tool other than
\* ExitSpecMode is the entry of the policy table for the session's mode and
\* the request's risk level.
C5_DecisionMatchesTable ==
  LET Table(mode, risk) ==
        CASE mode = "spec" -> IF risk = "low" THEN "approve" ELSE "reject"
          [] mode = "off" -> "ask"
          [] mode = "low" -> IF risk = "low" THEN "approve" ELSE "ask"
          [] mode = "medium" -> IF risk = "high" THEN "ask" ELSE "approve"
          [] mode = "high" -> "approve"
  IN
  (decisions.outcome # "none" /\ decisions.name # "ExitSpecMode") =>
    decisions.outcome = Table(decisions.mode, decisions.risk)

\* C5 amended: every decision of the engine for a tool other than ExitSpecMode,
\* taken while the session is not cancelled, is the entry of the policy table
\* for the session's mode and the request's risk level; a decision taken
\* while the session is cancelled is a rejection.
C5_DecisionMatchesTableUnlessCancelled ==
  LET Table(mode, risk) ==
        CASE mode = "spec" -> IF risk = "low" THEN "approve" ELSE "reject"
          [] mode = "off" -> "ask"
          [] mode = "low" -> IF risk = "low" THEN "approve" ELSE "ask"
          [] mode = "medium" -> IF risk = "high" THEN "ask" ELSE "approve"
          [] mode = "high" -> "approve"
  IN
  (decisions.outcome # "none" /\ decisions.name # "ExitSpecMode") =>
    decisions.outcome = IF decisions.cancelled THEN "reject"
                        ELSE Table(decisions.mode, decisions.risk)

\* C5 witness: a medium-risk request in spec mode was rejected by the table
\* and the rejection is on its way to the subprocess
C5_Witness ==
  /\ decisions = [name |-> "Execute", mode |-> "spec", risk |-> "medium",
                  cancelled |-> FALSE, outcome |-> "reject"]
  /\ \E t \in tasks : t.pc = "respond" /\ t.by = "auto" /\ t.option = "cancel"

\* C6: a permission request for ExitSpecMode is never decided automatically:
\* the engine escalates it to the human in every session state, and every
\* response written for it follows the human's answer (or a failed escalation).
C6_ExitSpecModeAlwaysEscalated ==
  /\ decisions.name = "ExitSpecMode" => decisions.outcome = "ask"
  /\ answers.name = "ExitSpecMode" => answers.by \in {"human", "failed"}

\* C7: for every session, at every instant, at most one restart is in flight.
C7_AtMostOneRestartInFlight ==
  \A k \in Keys :
    Cardinality({r \in Idx(restarts) : restarts[r].key = k /\ restarts[r].pc # "done"}) <= 1

\* C8: a prompt's user message is never written to the subprocess while a
\* restart of its session is still in progress.
C8_NoSendDuringRestart ==
  \A e \in sendLog : ~e.restarting

\* C9: the Session object registered under a session identifier is never
\* replaced: a step that leaves the identifier registered leaves it mapped to
\* the same object.
C9_SessionObjectNeverReplaced ==
  [][\A k \in Keys : (sessions[k] # 0 /\ sessions'[k] # 0) => sessions'[k] = sessions[k]]_vars

\* C10: the editor-facing session identifier never changes: every Session
\* object ever registered carries the identifier the session was created
\* with, the registry holds the session under that identifier only, and
\* every update to the editor is sent under it.
C10_EditorSessionIdStable ==
  Len(objs) > 0 =>
    /\ \A o \in Idx(objs) : objs[o].id = objs[1].id
    /\ \A k \in Keys : sessions[k] # 0 => k = objs[1].id
    /\ updateIds \subseteq {objs[1].id}

\* C10 witness: resumption failed, a fresh subprocess session with another
\* identifier was attached, and a prompt has been sent to it
C10_Witness ==
  \E r \in Idx(restarts) :
    /\ restarts[r].pc = "done"
    /\ restarts[r].obj # 0
    /\ objs[restarts[r].obj].droidSessionId # objs[1].droidSessionId
    /\ sessions[objs[1].id] = restarts[r].obj
    /\ \E e \in sendLog : e.droid = restarts[r].droid

\* C11: a cancel that finds a prompt continuation or a capture on the session
\* settles them in its own step: the continuation is resolved with the reason
\* "cancelled" and the capture is rejected, so the compress call awaiting it
\* resumes in its failure branch; that step neither stops a subprocess nor
\* starts a restart nor changes the registry.
C11_CancelSettlesBeforeRestart ==
  [][Len(cancels') = Len(cancels) + 1 =>
       LET o == cancels'[Len(cancels')].obj
           q == objs[o].promptResolve
           c == objs[o].capture
       IN
       /\ q # 0 => prompts'[q].pc = "done" /\ prompts'[q].result = "cancelled"
       /\ c # 0 => prompts'[c].pc = "compress82"
       /\ objs'[o].promptResolve = 0 /\ objs'[o].capture = 0
       /\ droids' = droids /\ restarts' = restarts /\ sessions' = sessions]_vars

\* C11 witness: a cancel found both a suspended prompt and a capture; the
\* prompt is resolved as cancelled, the compress call is in its failure
\* branch, and the restart is requested but no restart body has started
C11_Witness ==
  /\ Len(cancels) = 1
  /\ restarts = <<>>
  /\ micro # <<>> /\ Head(micro).t = "restart"
  /\ \E q \in Idx(prompts) : prompts[q].pc = "done" /\ prompts[q].result = "cancelled"
  /\ \E c \in Idx(prompts) : prompts[c].slash /\ prompts[c].pc = "compress82"
  /\ \A d \in Idx(droids) : droids[d].process = "alive"

\* C12: when a replacement subprocess is attached to a session, and when the
\* current subprocess of a session exits, no tool call is left active and
\* every tool call reported to the editor has been reported completed or
\* failed.
C12_ActiveToolCallsFinalized ==
  [][LET attached == \E r \in Idx(restarts) :
                       restarts[r].pc \in {"resume", "fresh"} /\ restarts'[r].pc = "reapply"
         exited == \E d \in Idx(droids) :
                     droids[d].osAlive /\ ~droids'[d].osAlive /\ Current(d) # 0
     IN
     (attached \/ exited) =>
       /\ \A o \in Idx(objs) : objs'[o].activeToolCallIds = {}
       /\ \A x \in Tools : reported'[x].last \in Terminal \cup {"none"}]_vars

\* C13: a prompt call arriving while the session holds a turn-completion
\* continuation throws and changes nothing else: nothing is written to a
\* subprocess, no restart is requested or started, and the session objects,
\* the registry, the subprocesses, the other prompt calls and the updates sent
\* to the editor stay as they were.
C13_SecondPromptRejectedWithoutEffect ==
  [][(Len(prompts') = Len(prompts) + 1 /\ sessions[prompts'[Len(prompts')].key] # 0
      /\ objs[sessions[prompts'[Len(prompts')].key]].promptResolve # 0) =>
       /\ prompts'[Len(prompts')].pc = "done" /\ prompts'[Len(prompts')].result = "error"
       /\ SubSeq(prompts', 1, Len(prompts)) = prompts
       /\ UNCHANGED <<sessions, objs, droids, restarts, cancels, micro, sendLog, updateIds>>]_vars

\* C13 witness: a prompt was rejected while an earlier prompt of the session
\* stays suspended on the registered session object with its message sent
C13_Witness ==
  \E p, q \in Idx(prompts) :
    /\ p < q
    /\ prompts[p].key = prompts[q].key
    /\ prompts[p].pc = "suspended"
    /\ prompts[q].pc = "done" /\ prompts[q].result = "error"
    /\ sessions[prompts[p].key] # 0
    /\ objs[sessions[prompts[p].key]].promptResolve = p
    /\ \E e \in sendLog : e.p = p
    /\ \A e \in sendLog : e.p # q
    /\ restarts = <<>>

Established(k) ==
  /\ sessions[k] # 0
  /\ LET o == sessions[k] IN
     /\ isRunning(objs[o].droid)
     /\ ~objs[o].cancelled
     /\ objs[o].restartPromise = 0
     /\ ~RestartInFlight(k)
     /\ \A e \in sendLog :
          prompts[e.p].result = "cancelled" => e.droid # objs[o].droid

Quiescent(k) ==
  /\ micro = <<>>
  /\ tasks = {}
  /\ ~RestartInFlight(k)
  /\ \A c \in Idx(cancels) : cancels[c].pc = "done"
  /\ sessions[k] # 0
  /\ isRunning(objs[sessions[k]].droid)

C16_ModesConverge ==
  \A k \in Keys :
    Quiescent(k) /\ lastChange[k].by # "none" =>
      LET o == sessions[k] IN
      /\ objs[o].mode = lastChange[k].mode
      /\ droids[objs[o].droid].mode = lastChange[k].mode
      /\ lastChange[k].by = "droid" => announced[k] = lastChange[k].mode
C18_SamePlanNotPresentedAgain ==
  [][\A t \in tasks :
       /\ (t.kind = "perm" /\ t.pc = "build" /\ t.plan # "" /\ t \notin tasks'
              /\ ~objs[t.obj].cancelled)
            => IF presented[objs[t.obj].id] = t.plan
               THEN planDetails' = planDetails /\ planDialogs' = planDialogs
               ELSE planDetails' = planDetails + 1
       /\ (t.kind = "perm" /\ t.pc = "details" /\ t \notin tasks' /\ PlanChoices(t.plan) # {})
            => planDialogs' = planDialogs + 1]_vars
\* C19: once the human chose an option of the plan, the steps that finish the
\* request leave the session's mode as it is, the response written to the
\* subprocess is the cancellation option, not an approval to leave Spec mode,
\* and the follow-up naming the chosen option is written to the subprocess.
PlanChoiceStep(t) ==
  /\ t.kind \in {"perm", "followUp"}
  /\ t.pc \in {"choose", "close1", "close2", "close3", "timer"}
  /\ t \notin tasks'
  /\ t.pc = "choose" => objs'[t.obj].specChoice \in PlanChoices(t.plan)

C19_PlanChoiceStaysInSpecMode ==
  [][\A t \in tasks : PlanChoiceStep(t) =>
       /\ objs'[t.obj].mode = objs[t.obj].mode
       /\ t.pc = "close3" => answers'.by = "plan" /\ answers'.option = "cancel"
       /\ t.pc = "timer" =>
            [droid |-> objs[t.obj].droid, choice |-> t.choice] \in followUps']_vars

\* ... as the code has it: the response and the follow-up reach the subprocess
\* that made the request if it was not stopped in the meantime (an effective
\* cancel restarts the session while the request is being finished);
\* otherwise both are dropped.
C19_PlanChoiceStaysInSpecModeWhileSubprocessRuns ==
  [][\A t \in tasks : PlanChoiceStep(t) =>
       /\ objs'[t.obj].mode = objs[t.obj].mode
       /\ t.pc = "close3" =>
            IF droids[t.d].process # "null"
            THEN answers'.by = "plan" /\ answers'.option = "cancel"
            ELSE answers' = answers
       /\ t.pc = "timer" =>
            IF writable(droids, objs[t.obj].droid)
            THEN [droid |-> objs[t.obj].droid, choice |-> t.choice] \in followUps'
            ELSE followUps' = followUps]_vars

C19_Witness ==
  /\ answers.by = "plan"
  /\ \E f \in followUps : f.choice = "B" /\ objs[sessions[droids[f.droid].key]].specChoice = "B"
  /\ \A t \in tasks : t.kind # "followUp"
\* C20: a step of permission handling changes the mode of the session only for
\* an ExitSpecMode request the human answered with an exit decision, not one
\* the human turned down; the mode is then the one chosen, it is announced to
\* the editor, and the option kept for the subprocess is the one of that mode.
OptionOfMode(modeId) ==
  CASE modeId = "off" -> "proceed_once"
    [] modeId = "low" -> "proceed_auto_run_low"
    [] modeId = "medium" -> "proceed_auto_run_medium"
    [] modeId = "high" -> "proceed_auto_run_high"
    [] modeId = "spec" -> "cancel"

ModeAnswered(t, t2) ==
  /\ t.kind = "perm" /\ t.pc = "ask" /\ t.name = "ExitSpecMode"
  /\ t2.id = t.id /\ t2.pc = "modeSent"
  /\ announced'[objs[t.obj].id] = objs'[t.obj].mode
  /\ t2.option = OptionOfMode(objs'[t.obj].mode)

C21_CancelWithoutWorkIsNoOp ==
  [][\A k \in Keys :
       (/\ Len(cancels') = Len(cancels) + 1
        /\ cancels'[Len(cancels')].key = k
        /\ IF sessions[k] = 0 THEN TRUE
           ELSE /\ objs[sessions[k]].promptResolve = 0
                /\ objs[sessions[k]].capture = 0
                /\ objs[sessions[k]].activeToolCallIds = {})
       => UNCHANGED <<sessions, objs, droids, prompts, restarts, micro, nextSid,
                      sendLog, updateIds, statusLog, reported>>]_vars

\* a second cancel of a session has followed a first one that resolved a prompt
C21_Witness ==
  \E c, c2 \in Idx(cancels) :
    /\ c < c2
    /\ cancels[c].key = cancels[c2].key
    /\ cancels[c].pc = "done"
    /\ cancels[c2].pc = "noop"
    /\ \E p \in Idx(prompts) : prompts[p].key = cancels[c].key
                               /\ prompts[p].result = "cancelled"

\* C22: a line that fails to parse is dropped: handling it leaves the
\* reconciler fields and every session variable as they were, emits no
\* notification, and leaves the chain of lines able to handle the next line
C22_MalformedLineDropped ==
  [][recTrace' = Append(recTrace, "malformed")
       => /\ UNCHANGED <<isStreamingAssistant, pendingIdle, pendingIdleTimer,
                         lifeVars, toolVars, modeVars, planVars, errVars, startVars>>
          /\ processingChain' = "ok"]_vars

\* a well-formed line has been handled, and its notification emitted, after a
\* malformed one
C22_Witness ==
  \E i, j \in Idx(recTrace) :
    /\ i < j /\ j < Len(recTrace)
    /\ recTrace[i] = "malformed"
    /\ recTrace[j] = "idle"
    /\ recTrace[j + 1] = "e:working_state"

\* C23: an error notification of a session's current subprocess leaves neither
\* the capture nor the prompt outstanding when its line is handled pending: the
\* capture is rejected at once, and the prompt is resolved once the error
\* message has been sent to the editor
C23_ErrorSettlesOutstanding ==
  \A i \in Idx(errorLog) :
    LET e == errorLog[i] IN
    e.obj # 0
    => /\ e.capture # 0 => prompts[e.capture].pc # "capturing"
       /\ e.prompt # 0 => /\ ~e.dropped
                          /\ e.sent => prompts[e.prompt].pc = "done"

\* C24: a prompt suspended for its turn holds an armed five-minute timer, so
\* none stays suspended after its timer fired: the firing resolves it, with
\* the end-of-turn reason
C24_TimerResolvesPrompt ==
  \A p \in Idx(prompts) : prompts[p].pc = "suspended" => prompts[p].timer

\* the restart r is in flight and has not attached its replacement yet
BeforeAttach(r) == restarts[r].pc \in {"resume", "fresh"}

\* C25: when the current subprocess of a session exits, the continuation the
\* session holds is resolved with the end-of-turn reason; with no restart in
\* flight the session is removed from the registry, and with a restart in
\* flight that has not yet attached its replacement the session stays
\* registered
C25_ExitTearsDownUnlessRestarting ==
  [][\A d \in Idx(droids) :
       (droids[d].osAlive /\ ~droids'[d].osAlive /\ droids[d].key # 0 /\ Current(d) # 0)
       => LET k == droids[d].key
              o == sessions[k]
              q == objs[o].promptResolve
          IN
          /\ q # 0 => prompts'[q].pc = "done" /\ prompts'[q].result = "end_turn"
          /\ ~RestartInFlight(k) => sessions'[k] = 0
          /\ (\E r \in Idx(restarts) : restarts[r].key = k /\ BeforeAttach(r))
               => sessions'[k] = o]_vars

\* C26: when the current subprocess of a session exits with no restart in
\* flight, the session stays registered and a restart of it is requested
C26_ExitHandledByRestart ==
  [][\A d \in Idx(droids) :
       (/\ droids[d].osAlive /\ ~droids'[d].osAlive
        /\ droids[d].key # 0 /\ Current(d) # 0
        /\ ~RestartInFlight(droids[d].key))
       => LET k == droids[d].key IN
          /\ sessions'[k] = sessions[k]
          /\ \E i \in Idx(micro') : micro'[i].t = "restart" /\ micro'[i].k = k]_vars

\* the cancel call c returns in this step
CancelReturns(c) ==
  /\ cancels'[c].pc = "done"
  /\ c \in Idx(cancels) => cancels[c].pc = "finalize"

C28_StartSettles ==
  /\ startResult = "pending" => initTimer = "armed"
  /\ initTimer = "fired" => startResult \in {"resolved", "rejected"}
  /\ startResult = "resolved" => droidSid = "set"
  /\ childProcess = "failed" => startResult = "rejected"

\* start() was rejected by its timer after the child process had exited
\* without an initialization response
C28_Witness ==
  /\ startResult = "rejected"
  /\ initTimer = "fired"
  /\ childProcess = "exited"
  /\ droidSid = "null"

\* the handler t2 of a line begins in this step
Begins(t2) == t2 \in tasks' /\ \A t \in tasks : t.id # t2.id

\* C29: the handler of a line of a subprocess begins only when no handler of
\* an earlier line of that subprocess is still suspended
C29_LinesHandledInOrder ==
  [][\A t2 \in tasks' : Begins(t2) => \A t \in tasks : t.d # t2.d]_vars

\* the suspended handler t resumes in this step and changes a status, sends
\* an update or settles the permission
Acts(t) ==
  /\ t \in tasks /\ t \notin tasks'
  /\ <<objs, statusLog, reported, decisions, answers>>' #
       <<objs, statusLog, reported, decisions, answers>>

\* C30: of a permission request and a tool_result notification for the same
\* tool call, the handler of the one that arrived second makes no status
\* change, update or decision while the handler of the one that arrived first
\* is unfinished
C30_PermissionAndResultInOrder ==
  [][\A t1, t2 \in tasks :
       (/\ {t1.kind, t2.kind} = {"perm", "result"}
        /\ t1.d = t2.d /\ t1.tool = t2.tool
        /\ t1.id < t2.id)
       => ~Acts(t2)]_vars

\* a continuation of the handler t runs in this step
Resumes(t) == t \in tasks /\ t \notin tasks'

\* C31: a resumed continuation (notification handler, permission handler
\* after the human decided) acts on a session only if the subprocess it
\* belongs to is still the current subprocess of that session: belonging to a
\* replaced subprocess, it changes no session state and sends no update to the
\* editor.
C31_StaleContinuationsInert ==
  [][\A t \in tasks :
       (Resumes(t) /\ Current(t.d) # t.obj)
       => UNCHANGED <<objs, statusLog, reported, announced>>]_vars

\* C32: a permission request is answered to the subprocess with an approving
\* (non-cancel) option only if the policy table approved it or a human selected
\* an approving option: never because the request carries no tool use, comes
\* from a subprocess that is not the current one, or found no handler.
C32_ApprovalOnlyByPolicyOrHuman ==
  (answers.by # "none" /\ answers.option # "cancel") => answers.by \in {"auto", "human"}

\* C33: every prompt call that is not rejected on entry eventually returns
\* (turn completion, error, cancellation, subprocess exit or timeout), in every
\* interleaving, prompts issued during a restart included.  A prompt rejected
\* on entry returns at once, so the statement covers every call; a behaviour in
\* which as many restarts began as the model allows is left out.
C33_PromptEventuallyReturns ==
  \A p \in 1 .. MaxPrompts :
    (Len(prompts) >= p)
      ~> ((Len(prompts) >= p /\ prompts[p].pc = "done") \/ Len(restarts) >= MaxRestarts)

\* C34: while a session is cancelled, a line of its subprocess changes nothing
\* in the session, and a permission request is answered with the cancellation
\* option without asking the human: its handler leaves the tool call completed
\* and sends the editor the completed status only, never a pending tool call.
C34_CancelledSessionSilent ==
  [][/\ lines' # lines
        => \A o \in Idx(objs) : objs[o].cancelled => objs'[o] = objs[o]
     /\ \A t \in tasks :
          (Resumes(t) /\ t.kind = "perm" /\ t.pc = "build" /\ objs[t.obj].cancelled)
          => /\ \E t2 \in tasks' : t2.id = t.id /\ t2.pc = "respond" /\ t2.option = "cancel"
             /\ objs'[t.obj].toolCallStatus[t.tool] = "completed"
             /\ reported'[t.tool] = Log(reported, t.tool, "completed")[t.tool]]_vars

\* the prompt call p installs its continuation in this step
Suspends(p) ==
  /\ prompts'[p].pc = "suspended"
  /\ p \in Idx(prompts) => prompts[p].pc # "suspended"

\* C35: a prompt installs its turn-completion continuation only against a
\* running subprocess to which its user message is written in the same step;
\* after a failed restart no prompt is suspended on a subprocess that is not
\* running.
C35_SuspendedOnlyOnWrittenSubprocess ==
  [][\A p \in Idx(prompts') :
       Suspends(p) => \E e \in sendLog' \ sendLog : e.p = p /\ isRunning(e.droid)]_vars


\* C36: whatever lines the subprocess writes and whenever the grace timer
\* fires, every "complete" the adapter emits has an idle line before it that no
\* earlier "complete" follows: at most one "complete" per idle signal, and none
\* without an idle signal since the previous one.
C36_CompleteOncePerIdle ==
  \A i \in Idx(recTrace) :
    recTrace[i] = "e:complete"
    => \E j \in 1 .. (i - 1) :
         /\ recTrace[j] = "idle"
         /\ \A m \in (j + 1) .. (i - 1) : recTrace[m] # "e:complete"

\* a "complete" emitted by the grace timer, then an idle line completing at once
C36_Witness ==
  \E i \in Idx(recTrace), j \in Idx(recTrace) :
    /\ i + 1 < j
    /\ recTrace[i] = "timer" /\ recTrace[i + 1] = "e:complete"
    /\ recTrace[j] = "e:complete"

\* the entry of the policy table for the latest request decided
TableDecision == computeAutoDecision(decisions.name, decisions.mode, decisions.risk)

\* C37: when the policy table decides a request, the option returned to the
\* subprocess agrees with it: a rejection returns the cancellation option; an
\* approval never returns the cancellation option, and returns one of the
\* options offered whenever a non-cancel option was offered.
C37_AutoOptionAgreesWithDecision ==
  \A t \in tasks :
    (t.kind = "perm" /\ t.pc = "respond" /\ t.by = "auto")
    => /\ decisions.name = t.name /\ decisions.risk = t.risk
       /\ TableDecision # "null"
       /\ TableDecision = "cancel" => t.option = "cancel"
       /\ TableDecision # "cancel"
          => /\ t.option # "cancel"
             /\ (\E i \in Idx(t.opts) : t.opts[i] # "cancel") => InSeq(t.opts, t.option)

\* an approval of the table that is not among the options offered, answered
\* with an approving option that is
C37_Witness ==
  \E t \in tasks :
    /\ t.kind = "perm" /\ t.pc = "respond" /\ t.by = "auto"
    /\ TableDecision \notin {"null", "cancel"}
    /\ ~InSeq(t.opts, TableDecision)
    /\ t.opts # <<>> /\ t.opts[1] = "cancel"
    /\ t.option # TableDecision /\ InSeq(t.opts, t.option)

\* no field of the notification holds a tool-call identifier
NoToolUseId(n) == \A i \in IdFields : n[i] \notin Tools

\* C38: a tool_result line that carries no tool-call identifier is logged and
\* dropped: no handler is started for it, no tool-call status is recorded or
\* sent, nothing is sent to the editor; and the handler started for a line that
\* carries one works on an identifier found in the line.
C38_ToolResultWithoutIdDropped ==
  [][\A d \in Idx(droids), n \in ToolResultLines, isError \in BOOLEAN :
       handleToolResult(d, n, isError)
       => /\ NoToolUseId(n)
             => /\ UNCHANGED <<objs, tasks, statusLog, reported, updateIds>>
                /\ Len(recTrace') = Len(recTrace) + 1
          /\ \A t \in tasks' \ tasks : \E i \in IdFields : n[i] = t.tool]_vars

\* a line without an identifier was dropped while a tool call was in progress
C38_Witness ==
  /\ InSeq(recTrace, "Missing tool_use_id")
  /\ \E o \in Idx(objs) : \E x \in Tools :
       x \in objs[o].activeToolCallIds /\ objs[o].toolCallStatus[x] = "in_progress"

\* C39: at every instant, no identifier in a session's active tool-call set
\* has the status completed or failed recorded, and every identifier whose
\* recorded status is completed or failed is absent from the active set.
C39_ActiveSetHasNoTerminalStatus ==
  \A o \in Idx(objs) : \A x \in objs[o].activeToolCallIds :
    objs[o].toolCallStatus[x] \notin Terminal

\* restart r settles in this step: its .finally block runs
Settles(r) == restarts[r].pc # "done" /\ restarts'[r].pc = "done"

\* keepAliveOnDroidExit of a registered session is true only while a restart
\* of that session is in flight
KeepAliveOnlyInFlight ==
  \A k \in Keys :
    (sessions[k] # 0 /\ objs[sessions[k]].keepAliveOnDroidExit) => RestartInFlight(k)

\* a settling restart leaves the flags of a newer restart in flight alone
SettleOwnFlagsOnly ==
  \A r \in Idx(restarts) : \A r2 \in Idx(restarts) :
    LET o == sessions[restarts[r].key] IN
    (/\ Settles(r) /\ r2 > r /\ restarts[r2].pc # "done"
     /\ o # 0 /\ objs[o].restartPromise = r2)
    => /\ objs'[o].restartPromise = r2
       /\ objs'[o].keepAliveOnDroidExit = objs[o].keepAliveOnDroidExit
       /\ objs'[o].cancelled = objs[o].cancelled

\* C40: keepAliveOnDroidExit is true only while a restart of that session is
\* in flight, and a settling restart, successful or not, resets the restart
\* promise, keepAliveOnDroidExit and cancelled only for its own restart, never
\* those of a newer restart that is still in flight.
C40_RestartFlagsOwned ==
  [][KeepAliveOnlyInFlight /\ KeepAliveOnlyInFlight' /\ SettleOwnFlagsOnly]_vars
====
